---- MODULE Spec2Model ----
(***************************************************************************)
(* A model of the extraction-and-curation pipeline of the Puppet LLM       *)
(* training project:                                                       *)
(*   - PuppetDatasetCreator (data_processing/create_training_dataset.py),  *)
(*     the corpus normalizer and deduplicator,                             *)
(*   - WebsitePuppetScraper (data_collection/website_puppet_scraper.py),   *)
(*   - PDFPuppetExtractor (data_collection/pdf_puppet_extractor.py),       *)
(*   - GitHubPuppetScraper (data_collection/github_puppet_scraper.py).     *)
(* Text is modelled by TLA+ strings; the regular expressions and string    *)
(* methods the code uses are operators that compute what they compute.     *)
(***************************************************************************)
EXTENDS Integers, Sequences, FiniteSets, TLC

VARIABLES
    raw_files,          \* the *.pp files under raw_data_dir, in rglob order
    web_file,           \* puppet_docs_examples.json: absent, unparseable or a list
    pdf_file,           \* pdf_examples.json: absent, unparseable or a list
    training_examples,  \* PuppetDatasetCreator.training_examples
    unique_examples,    \* create_final_dataset: the shuffled survivors
    final_corpus,       \* puppet_training_data.json
    test_corpus,        \* puppet_test_data.json
    pc,                 \* position of the driver of the run
    calls,              \* the process_* calls made so far, in order
    web,                \* state of a WebsitePuppetScraper run
    pdf,                \* state of a PDFPuppetExtractor.extract_from_pdf run
    github,             \* state of a GitHubPuppetScraper run
    clean,              \* a text and what clean_puppet_code made of it
    scored,             \* a text growing by lines and the score of each stage
    related             \* a page's anchors and the links find_related_links kept

vars == <<raw_files, web_file, pdf_file, training_examples, unique_examples,
          final_corpus, test_corpus, pc, calls, web, pdf, github, clean, scored, related>>

---------------------------------------------------------------------------
(* Characters and strings.                                                 *)

\* The i-th character of s, as a one-character string.
Ch(s, i) == SubSeq(s, i, i)

\* What \s matches and str.strip()/lstrip() removes.
Whitespace == {" ", "\t", "\n", "\r", "\f"}

LowerLetters == "abcdefghijklmnopqrstuvwxyz"
UpperLetters == "ABCDEFGHIJKLMNOPQRSTUVWXYZ"
Digits == "0123456789"

CharsOf(s) == {Ch(s, i) : i \in 1..Len(s)}

UpperChars == CharsOf(UpperLetters)
DigitChars == CharsOf(Digits)

\* What \w matches.
WordChars == CharsOf(LowerLetters) \cup UpperChars \cup DigitChars \cup {"_"}

\* The lower-case letter of every upper-case letter.
LowerOf == [c \in UpperChars |->
              Ch(LowerLetters, CHOOSE i \in 1..Len(UpperLetters) : Ch(UpperLetters, i) = c)]

\* str.lower() of one character.
LowerCh(c) == IF c \in UpperChars THEN LowerOf[c] ELSE c

\* The strings piece[lo], ..., piece[hi] in one string.
RECURSIVE Gather(_, _, _)
Gather(piece, lo, hi) ==
    IF lo < hi
    THEN Gather(piece, lo, (lo + hi) \div 2) \o Gather(piece, (lo + hi) \div 2 + 1, hi)
    ELSE IF lo = hi THEN piece[lo] ELSE ""

\* str.lower()
Lower(s) == Gather([i \in 1..Len(s) |-> LowerCh(Ch(s, i))], 1, Len(s))

\* The first index j >= i of s whose character is not in C (Len(s)+1 if none).
Span(s, i, C) ==
    IF i > Len(s) THEN i
    ELSE CHOOSE j \in i..(Len(s) + 1) :
            /\ j = Len(s) + 1 \/ Ch(s, j) \notin C
            /\ \A k \in i..(j - 1) : Ch(s, k) \in C

\* The first index j >= i of s whose character is in C (Len(s)+1 if none).
SpanNot(s, i, C) ==
    IF i > Len(s) THEN i
    ELSE CHOOSE j \in i..(Len(s) + 1) :
            /\ j = Len(s) + 1 \/ Ch(s, j) \in C
            /\ \A k \in i..(j - 1) : Ch(s, k) \notin C

\* s[i:j] of Python, 1-based and inclusive here: characters i..j.
Sub(s, i, j) == IF i > j THEN "" ELSE SubSeq(s, i, j)

\* t occurs in s at index i.
At(s, i, t) == i >= 1 /\ i + Len(t) - 1 <= Len(s) /\ SubSeq(s, i, i + Len(t) - 1) = t

\* `t in s`
Contains(s, t) == \E i \in 1..(Len(s) - Len(t) + 1) : At(s, i, t)

\* str.lstrip()
LStrip(s) == Sub(s, Span(s, 1, Whitespace), Len(s))

\* The last index j <= i of s whose character is not in C (0 if none).
SpanBack(s, i, C) ==
    IF i < 1 THEN i
    ELSE i - CHOOSE d \in 0..i :
                /\ d = i \/ Ch(s, i - d) \notin C
                /\ \A k \in (i - d + 1)..i : Ch(s, k) \in C

\* str.strip()
Strip(s) == Sub(s, Span(s, 1, Whitespace), SpanBack(s, Len(s), Whitespace))

\* str.split('\n'): what lies before the first newline, between every two
\* newlines that follow each other, and after the last newline.
SplitLines(s) ==
    LET newlines == {i \in 1..Len(s) : Ch(s, i) = "\n"}
        newline(k) == CHOOSE p \in newlines : Cardinality({q \in newlines : q < p}) = k - 1
        n == Cardinality(newlines)
    IN  [k \in 1..(n + 1) |->
            Sub(s, IF k = 1 THEN 1 ELSE newline(k - 1) + 1,
                   IF k = n + 1 THEN Len(s) ELSE newline(k) - 1)]

\* '\n'.join(lines)
JoinLines(lines) ==
    Gather([i \in 1..Len(lines) |-> IF i = 1 THEN lines[1] ELSE "\n" \o lines[i]],
           1, Len(lines))

\* The elements of a list.
Range(seq) == {seq[i] : i \in 1..Len(seq)}

\* n copies of s
RECURSIVE Repeat(_, _)
Repeat(s, n) == IF n <= 0 THEN "" ELSE s \o Repeat(s, n - 1)

\* The indices of s that satisfy Test, in ascending order.
Indices(s, Test(_)) == SelectSeq([i \in 1..Len(s) |-> i], Test)

\* re.sub with matches that do not overlap: s with what lies between starts[k]
\* and stop(starts[k]), both included, replaced by the string by, for every k.
Splice(s, starts, stop(_), by) ==
    Gather([k \in 1..(Len(starts) + 1) |->
                (IF k = 1 THEN "" ELSE by)
                \o Sub(s, IF k = 1 THEN 1 ELSE stop(starts[k - 1]) + 1,
                          IF k = Len(starts) + 1 THEN Len(s) ELSE starts[k] - 1)],
           1, Len(starts) + 1)

\* re.sub(r'\s+', ' ', s): every run of whitespace becomes one space.
Collapse(s) ==
    LET run_start(i) == Ch(s, i) \in Whitespace /\ (i = 1 \/ Ch(s, i - 1) \notin Whitespace)
        run_stop(i) == Span(s, i, Whitespace) - 1
    IN  Splice(s, Indices(s, run_start), run_stop, " ")

\* The index of the last "\n" among the characters i..j of s (0 if none).
LastNewline(s, i, j) ==
    IF \E p \in i..j : Ch(s, p) = "\n"
    THEN CHOOSE p \in i..j : Ch(s, p) = "\n" /\ \A k \in (p + 1)..j : Ch(s, k) # "\n"
    ELSE 0

\* re.sub(r'\n\s*\n', '\n\n', s): scanning left to right, a newline followed by
\* whitespace that holds another newline is replaced, up to the last newline of
\* that whitespace run, by two newlines; matches do not overlap. So a match
\* starts at the first newline of a run of whitespace that holds two newlines
\* or more, and stops at the last newline of that run.
BlankRuns(s) ==
    LET match_stop(i) == LastNewline(s, i, Span(s, i, Whitespace) - 1)
        match_start(i) ==
            /\ Ch(s, i) = "\n"
            /\ \A k \in (SpanBack(s, i, Whitespace) + 1)..(i - 1) : Ch(s, k) # "\n"
            /\ match_stop(i) # i
    IN  Splice(s, Indices(s, match_start), match_stop, "\n\n")

---------------------------------------------------------------------------
(* PuppetDatasetCreator: the corpus normalizer and deduplicator.           *)

\* The line re-indented with one space for each level.
clean_line_one_space(line) ==
    LET stripped == LStrip(line)
        indent_level == (Len(line) - Len(stripped)) \div 2
    IN  IF stripped # "" THEN Repeat(" ", indent_level) \o stripped ELSE ""

\* One line of clean_puppet_code's loop: the line re-indented.
clean_line(line) ==
    LET stripped == LStrip(line)
        indent_level == (Len(line) - Len(stripped)) \div 2
    IN  IF stripped # "" THEN Repeat("  ", indent_level) \o stripped ELSE ""

\* clean_puppet_code without its loop: the lines are returned as they are.
clean_without_reindent(code) == BlankRuns(code)

clean_puppet_code(code) ==
    LET lines == SplitLines(BlankRuns(code))
    IN  JoinLines([i \in 1..Len(lines) |-> clean_line(lines[i])])

\* A deduplication key that compares the outputs as they are.
normalized_exact(output) == output

\* The key of create_final_dataset's deduplication, line 169.
normalized(output) == Collapse(output)

\* A regular expression kw\s+(\w+) matched at index i of s: the keyword, at
\* least one whitespace character, at least one word character.
KeywordAt(s, i, kw) ==
    LET j == Span(s, i + Len(kw), Whitespace)
    IN  At(s, i, kw) /\ j > i + Len(kw) /\ j <= Len(s) /\ Ch(s, j) \in WordChars

\* group(1) of that match: the longest run of word characters.
KeywordGroup(s, i, kw) ==
    LET j == Span(s, i + Len(kw), Whitespace)
    IN  Sub(s, j, Span(s, j, WordChars) - 1)

\* re.search(kw + r'\s+(\w+)', s), from index i on: the leftmost match.
RECURSIVE SearchKeywordFrom(_, _, _)
SearchKeywordFrom(s, i, kw) ==
    IF i > Len(s) THEN [found |-> FALSE, group |-> ""]
    ELSE IF KeywordAt(s, i, kw) THEN [found |-> TRUE, group |-> KeywordGroup(s, i, kw)]
    ELSE SearchKeywordFrom(s, i + 1, kw)
SearchKeyword(s, kw) == SearchKeywordFrom(s, 1, kw)

\* r'^#\s*(.+?)$' (re.MULTILINE) tried at index i, a '#' at the start of a
\* line: \s* takes as much whitespace as leaves a character other than a
\* newline for .+?, which then runs to the end of that line. The index where
\* the group starts, 0 when the pattern does not match at i.
RECURSIVE CommentGroupStart(_, _, _)
CommentGroupStart(s, i, p) ==
    IF p <= i THEN 0
    ELSE IF p <= Len(s) /\ Ch(s, p) # "\n" THEN p
    ELSE CommentGroupStart(s, i, p - 1)

\* re.search(r'^#\s*(.+?)$', s, re.MULTILINE), from index i on.
RECURSIVE SearchCommentFrom(_, _)
SearchCommentFrom(s, i) ==
    IF i > Len(s) THEN [found |-> FALSE, group |-> ""]
    ELSE LET p == IF Ch(s, i) = "#" /\ (i = 1 \/ Ch(s, i - 1) = "\n")
                  THEN CommentGroupStart(s, i, Span(s, i + 1, Whitespace))
                  ELSE 0
         IN  IF p # 0
             THEN [found |-> TRUE, group |-> Sub(s, p, SpanNot(s, p, {"\n"}) - 1)]
             ELSE SearchCommentFrom(s, i + 1)
SearchComment(s) == SearchCommentFrom(s, 1)

\* dict.get / `key in dict` on a record of an intermediate corpus.
Has(example, key) == key \in DOMAIN example

\* process_github_files, lines 55-72: the description of one file.
github_description(content) ==
    LET class_match == SearchKeyword(content, "class")
        define_match == SearchKeyword(content, "define")
        comment_match == SearchComment(content)
    IN  IF comment_match.found THEN comment_match.group
        ELSE IF class_match.found THEN "Write a Puppet class named " \o class_match.group
        ELSE IF define_match.found
             THEN "Write a Puppet defined type named " \o define_match.group
        ELSE "Write Puppet code for system configuration"

\* The record process_github_files makes of one file, lines 55-80.
github_example(file) ==
    [instruction |-> github_description(file.content),
     output |-> clean_puppet_code(file.content),
     source |-> file.path]

\* The body of process_github_files' loop from file i on. A file that is not
\* UTF-8 makes f.read() raise UnicodeDecodeError, which nothing catches: the
\* loop stops at the first such file.
github_loop(files, i, examples) ==
    LET stop == IF \E k \in i..Len(files) : ~files[k].decodable
                THEN CHOOSE k \in i..Len(files) :
                        /\ ~files[k].decodable
                        /\ \A j \in i..(k - 1) : files[j].decodable
                ELSE Len(files) + 1
    IN  [examples |-> examples \o [k \in 1..(stop - i) |-> github_example(files[i + k - 1])],
         raised |-> stop <= Len(files)]

\* process_web_examples, lines 136-151: the description of one record.
web_description(description, code) ==
    IF description \in {"Classes", "Puppet", ""} \/ Len(description) < 10
    THEN IF Contains(code, "class ")
         THEN LET match == SearchKeyword(code, "class")
              IN  IF match.found THEN "Puppet class " \o match.group ELSE description
         ELSE IF Contains(code, "define ")
         THEN LET match == SearchKeyword(code, "define")
              IN  IF match.found THEN "Puppet defined type " \o match.group
                  ELSE description
         ELSE IF Contains(code, "node ") THEN "Puppet node definition"
         ELSE IF Contains(code, "include ") THEN "Including Puppet classes"
         ELSE "Puppet configuration code"
    ELSE description

\* The quality filters of process_web_examples, lines 123-128, on a record
\* that has the fields they read.
web_min_score == 3
min_code_length == 30

\* A score read that lets a record without the field through.
get_score_or_pass(example) ==
    IF Has(example, "puppet_score") THEN example.puppet_score ELSE web_min_score

\* example.get('puppet_score', 0)
get_puppet_score(example) == IF Has(example, "puppet_score") THEN example.puppet_score ELSE 0

\* One turn of process_web_examples' loop, lines 122-156, on the record
\* example: the training examples and the codes seen after it. The loop is
\* outside the try block: a KeyError of example['code'], example['description']
\* or example['source'] is raised to the caller.
web_turn(example, seen_codes, examples) ==
    LET skipped == [examples |-> examples, seen_codes |-> seen_codes, raised |-> FALSE]
        key_error == [examples |-> examples, seen_codes |-> seen_codes, raised |-> TRUE]
    IN  IF get_puppet_score(example) < web_min_score THEN skipped
        ELSE IF ~Has(example, "code") THEN key_error
        ELSE IF Len(example.code) < min_code_length THEN skipped
        ELSE IF example.code \in seen_codes THEN skipped
        ELSE IF ~Has(example, "description") \/ ~Has(example, "source") THEN key_error
        ELSE [examples |->
                Append(examples,
                       [instruction |-> web_description(example.description, example.code),
                        output |-> clean_puppet_code(example.code),
                        source |-> example.source]),
              seen_codes |-> seen_codes \cup {example.code},
              raised |-> FALSE]

\* The loop of process_web_examples from record i on, after the turns that
\* left the examples and the seen codes of turn; an exception ends it.
RECURSIVE web_loop(_, _, _)
web_loop(examples_in, i, turn) ==
    IF turn.raised \/ i > Len(examples_in) THEN turn
    ELSE web_loop(examples_in, i + 1,
                  web_turn(examples_in[i], turn.seen_codes, turn.examples))

\* The state of the loop of process_web_examples before its first turn.
web_start(examples) == [examples |-> examples, seen_codes |-> {}, raised |-> FALSE]

\* The body of process_pdf_examples' loop from record i on. The loop is inside
\* the try block: an exception ends the loop and is printed, not raised.
RECURSIVE pdf_loop(_, _, _)
pdf_loop(examples_in, i, examples) ==
    IF i > Len(examples_in) THEN examples
    ELSE LET example == examples_in[i]
         IN  IF ~Has(example, "code") THEN examples
             ELSE IF Len(example.code) < min_code_length
             THEN pdf_loop(examples_in, i + 1, examples)
             ELSE IF ~Has(example, "description") \/ ~Has(example, "source")
             THEN examples
             ELSE pdf_loop(examples_in, i + 1,
                     Append(examples, [instruction |-> example.description,
                                       output |-> clean_puppet_code(example.code),
                                       source |-> example.source]))

\* The records of a list at the indices kept, in the order of kept.
Pick(examples, kept) == [j \in 1..Len(kept) |-> examples[kept[j]]]

\* The loop of lines 167-172 from record i on, keys[k] being the normalized
\* code of record k: a record is appended when its key is not in seen_codes,
\* that is, not there at the start and not the key of a record since i.
dedup_keys(examples, keys, i, seen_codes, unique) ==
    LET first(k) == /\ k >= i
                    /\ keys[k] \notin seen_codes
                    /\ \A j \in i..(k - 1) : keys[j] # keys[k]
    IN  unique \o Pick(examples, Indices(examples, first))

\* create_final_dataset, lines 164-172: the first record of every normalized
\* code, in the order of training_examples.
dedup_loop(examples, i, seen_codes, unique) ==
    dedup_keys(examples,
               [k \in 1..Len(examples) |-> normalized(examples[k].output)] \o <<>>,
               i, seen_codes, unique)

\* random.shuffle: any permutation of 1..n. Every permutation up to
\* MaxFullShuffle records; the rotations and the reversed rotations beyond.
MaxFullShuffle == 3

\* A draw with replacement that takes the same record every time.
Resamples(n) == {[i \in 1..n |-> k] : k \in 1..n}

Shuffles(n) ==
    IF n <= MaxFullShuffle
    THEN {f \in [1..n -> 1..n] : \A i, j \in 1..n : f[i] = f[j] => i = j}
    ELSE {[i \in 1..n |-> ((i - 1 + k) % n) + 1] : k \in 0..(n - 1)}
         \cup {[i \in 1..n |-> ((n - i + k) % n) + 1] : k \in 0..(n - 1)}

\* create_final_dataset, lines 177-182
format_example(example) ==
    [text |-> "# " \o example.instruction \o "\n" \o example.output]

max_test_size == 50
test_fraction == 10
\* A tenth of the records, however many.
test_size_unlimited(n) == n \div test_fraction

\* create_final_dataset, line 192
test_size(n) == IF max_test_size < n \div test_fraction THEN max_test_size
                ELSE n \div test_fraction

\* create_final_dataset, lines 174-194: what it writes from the survivors of
\* the deduplication, for one outcome f of the shuffle.
final_dataset(unique, f) ==
    LET shuffled == [i \in 1..Len(unique) |-> unique[f[i]]]
        formatted == [i \in 1..Len(shuffled) |-> format_example(shuffled[i])]
    IN  [unique_examples |-> shuffled,
         final_corpus |-> formatted,
         test_corpus |-> SubSeq(formatted, 1, test_size(Len(formatted)))]

---------------------------------------------------------------------------
(* The inputs of a merge run: the raw files and the intermediate corpora.  *)

\* Codes around the admission gate and the deduplication.
Code29 == "node x { include apache_mod }"
Code30 == "class foo { ensure => absent }"
CodeX == "class foo { ensure => present }"
CodeLead1 == " " \o CodeX
CodeLead2 == "  " \o CodeX
CodeTrail == CodeX \o " "
CodeBlank1 == "class foo {\n\n  ensure => present }"
CodeBlank3 == "class foo {  \n\n\n\n  ensure => present }"
CodeResourceClass == "class { 'apache': ensure => present }"
CodeComment == "# Puppet\ndefine bar { ensure => present }"

Codes == {Code29, Code30, CodeX, CodeLead1, CodeLead2, CodeTrail, CodeBlank1,
          CodeBlank3, CodeResourceClass, CodeComment}
\* The codes that pairs of candidates are drawn from.
PairCodes == {CodeX, CodeLead1, CodeLead2, CodeTrail, CodeBlank1, CodeBlank3}

WebDescriptions == {"", "Puppet", "Manage the foo class"}
PdfDescriptions == {"From  on page 1", "Puppet"}
WebScores == {2, 3}

WebUrl == "https://www.puppetcookbook.com/"
WebRec(code, description, score) ==
    [code |-> code, description |-> description, source |-> WebUrl, puppet_score |-> score]
PdfRec(code, description) ==
    [code |-> code, description |-> description, source |-> "PDF page 1"]
RawPaths == <<"raw/puppetlabs_apache/manifests_init.pp",
              "raw/puppetlabs_apache/manifests_server.pp">>
\* The n-th file of the raw data directory.
RawFileAt(n, content) == [path |-> RawPaths[n], content |-> content, decodable |-> TRUE]
RawFile(content) == RawFileAt(1, content)

\* Records of an intermediate corpus that lack a field, and a raw file that is
\* not UTF-8.
WebMalformed ==
    {[description |-> "Manage the foo class", source |-> WebUrl, puppet_score |-> 3],
     [code |-> CodeX, source |-> WebUrl, puppet_score |-> 3],
     [code |-> CodeX, description |-> "Manage the foo class", puppet_score |-> 3],
     [code |-> CodeX, description |-> "Manage the foo class", source |-> WebUrl]}
PdfMalformed ==
    {[description |-> "From  on page 1", source |-> "PDF page 1"],
     [code |-> CodeX, source |-> "PDF page 1"]}
RawUndecodable == [path |-> RawPaths[2], content |-> "", decodable |-> FALSE]

WebRecords == {WebRec(c, d, n) : c \in Codes, d \in WebDescriptions, n \in WebScores}
              \cup WebMalformed
PdfRecords == {PdfRec(c, d) : c \in Codes, d \in PdfDescriptions} \cup PdfMalformed
RawFiles == {RawFile(c) : c \in Codes} \cup {RawUndecodable}

GoodWeb(c) == WebRec(c, "Manage the foo class", 3)
GoodPdf(c) == PdfRec(c, "From  on page 1")

\* A JSON file: absent, not parseable as JSON, or a list of records.
Absent == [state |-> "absent", records |-> <<>>]
Unparseable == [state |-> "unparseable", records |-> <<>>]
JsonList(records) == [state |-> "list", records |-> records]

NoFiles == [raw |-> <<>>, web |-> Absent, pdf |-> Absent]

\* The file systems a run starts from: no input; one corpus absent or
\* unparseable; one candidate in one source; two candidates in one or two
\* sources; a well-formed record before or after a malformed one.
FileSystems ==
    {[NoFiles EXCEPT !.web = w, !.pdf = p] :
        w \in {Absent, Unparseable, JsonList(<<>>)},
        p \in {Absent, Unparseable, JsonList(<<>>)}}
    \cup {[NoFiles EXCEPT !.web = JsonList(<<r>>)] : r \in WebRecords}
    \cup {[NoFiles EXCEPT !.pdf = JsonList(<<r>>)] : r \in PdfRecords}
    \cup {[NoFiles EXCEPT !.raw = <<r>>] : r \in RawFiles}
    \cup {[NoFiles EXCEPT !.web = JsonList(<<GoodWeb(c), GoodWeb(d)>>)] :
            c, d \in PairCodes}
    \cup {[NoFiles EXCEPT !.pdf = JsonList(<<GoodPdf(c), GoodPdf(d)>>)] :
            c, d \in PairCodes}
    \cup {[NoFiles EXCEPT !.raw = <<RawFileAt(1, c), RawFileAt(2, d)>>] :
            c, d \in PairCodes}
    \cup {[NoFiles EXCEPT !.web = JsonList(<<GoodWeb(c)>>),
                          !.pdf = JsonList(<<GoodPdf(d)>>)] : c, d \in PairCodes}
    \cup {[NoFiles EXCEPT !.raw = <<RawFile(c)>>,
                          !.web = JsonList(<<GoodWeb(d)>>)] : c, d \in PairCodes}
    \cup {[NoFiles EXCEPT !.raw = <<RawFile(c)>>,
                          !.pdf = JsonList(<<GoodPdf(d)>>)] : c, d \in PairCodes}
    \cup {[NoFiles EXCEPT !.web = JsonList(<<GoodWeb(CodeX), r>>)] : r \in WebMalformed}
    \cup {[NoFiles EXCEPT !.web = JsonList(<<r, GoodWeb(CodeX)>>)] : r \in WebMalformed}
    \cup {[NoFiles EXCEPT !.pdf = JsonList(<<GoodPdf(CodeX), r>>)] : r \in PdfMalformed}
    \cup {[NoFiles EXCEPT !.pdf = JsonList(<<r, GoodPdf(CodeX)>>)] : r \in PdfMalformed}
    \cup {[NoFiles EXCEPT !.raw = <<RawFile(CodeX), RawUndecodable>>,
                          !.pdf = JsonList(<<GoodPdf(Code30)>>)]}

---------------------------------------------------------------------------
(* The merge: PuppetDatasetCreator's methods, called in any order.         *)

MaxCalls == 2

Idle == "idle"

InitCreator ==
    /\ training_examples = <<>>
    /\ unique_examples = <<>>
    /\ final_corpus = Absent
    /\ test_corpus = Absent
    /\ calls = <<>>

Init ==
    /\ \E fs \in FileSystems :
        raw_files = fs.raw /\ web_file = fs.web /\ pdf_file = fs.pdf
    /\ InitCreator
    /\ pc = "creator"
    /\ web = Idle
    /\ pdf = Idle
    /\ github = Idle /\ clean = Idle /\ scored = Idle /\ related = Idle

FilesUnchanged == UNCHANGED <<raw_files, web_file, pdf_file, web, pdf, github, clean, scored, related>>
OutputUnchanged == UNCHANGED <<unique_examples, final_corpus, test_corpus>>

\* What process_github_files does to the creator; next_pc is where the driver
\* goes when the call returns.
do_github(next_pc) ==
    LET r == github_loop(raw_files, 1, training_examples)
    IN  /\ training_examples' = r.examples
        /\ pc' = IF r.raised THEN "aborted" ELSE next_pc
        /\ calls' = Append(calls, "github")
        /\ OutputUnchanged /\ FilesUnchanged

\* process_web_examples without the handler of FileNotFoundError.
do_web_uncaught(next_pc) ==
    \E r \in {IF web_file.state = "absent"
              THEN [web_start(training_examples) EXCEPT !.raised = TRUE]
              ELSE IF web_file.state # "list" THEN web_start(training_examples)
              ELSE web_loop(web_file.records, 1, web_start(training_examples))} :
        /\ training_examples' = r.examples
        /\ pc' = IF r.raised THEN "aborted" ELSE next_pc
        /\ calls' = Append(calls, "web")
        /\ OutputUnchanged /\ FilesUnchanged

\* What process_web_examples does: a file that is absent or not JSON is
\* reported and the call returns.
do_web(next_pc) ==
    \E r \in {IF web_file.state # "list" THEN web_start(training_examples)
              ELSE web_loop(web_file.records, 1, web_start(training_examples))} :
        /\ training_examples' = r.examples
        /\ pc' = IF r.raised THEN "aborted" ELSE next_pc
        /\ calls' = Append(calls, "web")
        /\ OutputUnchanged /\ FilesUnchanged

\* What process_pdf_examples does: every exception is caught.
do_pdf(next_pc) ==
    /\ training_examples' = IF pdf_file.state # "list"
                            THEN training_examples
                            ELSE pdf_loop(pdf_file.records, 1, training_examples)
    /\ pc' = next_pc
    /\ calls' = Append(calls, "pdf")
    /\ OutputUnchanged /\ FilesUnchanged

\* What create_final_dataset does.
do_final(next_pc) ==
    \E unique \in {dedup_loop(training_examples, 1, {}, <<>>)} :
        \E f \in Shuffles(Len(unique)) :
            \E r \in {final_dataset(unique, f)} :
                /\ unique_examples' = r.unique_examples
                /\ final_corpus' = JsonList(r.final_corpus)
                /\ test_corpus' = JsonList(r.test_corpus)
                /\ pc' = next_pc
                /\ UNCHANGED <<training_examples, calls>>
                /\ FilesUnchanged

process_github_files == pc = "creator" /\ Len(calls) < MaxCalls /\ do_github("creator")
process_web_examples == pc = "creator" /\ Len(calls) < MaxCalls /\ do_web("creator")
process_pdf_examples == pc = "creator" /\ Len(calls) < MaxCalls /\ do_pdf("creator")
create_final_dataset == pc = "creator" /\ do_final("done")

Next ==
    \/ process_github_files
    \/ process_web_examples
    \/ process_pdf_examples
    \/ create_final_dataset

Spec == Init /\ [][Next]_vars

---------------------------------------------------------------------------
(* The merge run of the script: __main__, lines 201-210.                   *)

InitMain ==
    /\ \E fs \in FileSystems :
        raw_files = fs.raw /\ web_file = fs.web /\ pdf_file = fs.pdf
    /\ InitCreator
    /\ pc = "main_github"
    /\ web = Idle
    /\ pdf = Idle
    /\ github = Idle /\ clean = Idle /\ scored = Idle /\ related = Idle

main_github == pc = "main_github" /\ do_github("main_web")
main_web == pc = "main_web" /\ do_web("main_pdf")
main_pdf == pc = "main_pdf" /\ do_pdf("main_final")
main_final == pc = "main_final" /\ do_final("done")

NextMain == main_github \/ main_web \/ main_pdf \/ main_final

SpecMain == InitMain /\ [][NextMain]_vars

---------------------------------------------------------------------------
(* WebsitePuppetScraper: the plausibility score.                           *)

\* A pattern of puppet_patterns: what must precede the literal ("b" for \b
\* before a word, "w" for a word character, "" for nothing), the literal in
\* lower case, the whitespace after it ("+" for \s+, "*" for \s*, "" for
\* none), and the strings one of which must follow.
Pattern(pre, lit, ws, follow) == [pre |-> pre, lit |-> lit, ws |-> ws, follow |-> follow]

Quotes == {"'", "\""}

\* ['"]?\w
QuotedWord == WordChars \cup {q \o c : q \in Quotes, c \in WordChars}

\* extract_code_blocks, lines 81-100
puppet_patterns ==
    << Pattern("b", "class", "+", WordChars),
       Pattern("b", "define", "+", WordChars),
       Pattern("b", "node", "+", QuotedWord),
       Pattern("b", "include", "+", WordChars),
       Pattern("b", "require", "+", WordChars),
       Pattern("b", "notify", "*", {"=>"}),
       Pattern("b", "file", "*", {"{"}),
       Pattern("b", "package", "*", {"{"}),
       Pattern("b", "service", "*", {"{"}),
       Pattern("b", "exec", "*", {"{"}),
       Pattern("b", "user", "*", {"{"}),
       Pattern("b", "group", "*", {"{"}),
       Pattern("", "=>", "*", Quotes),
       Pattern("b", "ensure", "*", {"=>"}),
       Pattern("b", "content", "*", {"=>"}),
       Pattern("b", "source", "*", {"=>"}),
       Pattern("", "$", "", WordChars),
       Pattern("w", "::", "", WordChars) >>

\* The pattern matches the lower-case text t at index i.
PatternAt(t, i, pat) ==
    LET after == i + Len(pat.lit)
        j == IF pat.ws = "" THEN after ELSE Span(t, after, Whitespace)
    IN  /\ At(t, i, pat.lit)
        /\ pat.pre = "b" => (i = 1 \/ Ch(t, i - 1) \notin WordChars)
        /\ pat.pre = "w" => (i > 1 /\ Ch(t, i - 1) \in WordChars)
        /\ pat.ws = "+" => j > after
        /\ \E f \in pat.follow : At(t, j, f)

\* A search that looks at the last line of t only.
matches_last_line(t, pat) ==
    \E i \in 1..Len(t) :
        /\ PatternAt(t, i, pat)
        /\ \A j \in i..Len(t) : Ch(t, j) # "\n"

\* re.search(pattern, code, re.IGNORECASE), on the lower-case text t of code
pattern_matches(t, pat) == \E i \in 1..Len(t) : PatternAt(t, i, pat)

\* The number of patterns that match the lower-case text t.
count_matches(t) ==
    Cardinality({k \in 1..Len(puppet_patterns) : pattern_matches(t, puppet_patterns[k])})

\* extract_code_blocks, line 103
puppet_score(code) == count_matches(Lower(code))

\* Line 103 with the patterns visited in the order `order` of their indices:
\* sum(1 for pattern in ... if re.search(pattern, code, re.IGNORECASE)).
RECURSIVE sum_matches(_, _)
sum_matches(code, order) ==
    IF order = <<>> THEN 0
    ELSE (IF pattern_matches(Lower(code), puppet_patterns[Head(order)]) THEN 1 ELSE 0)
         + sum_matches(code, Tail(order))

listed_order == [k \in 1..Len(puppet_patterns) |-> k]
reverse_order == [k \in 1..Len(puppet_patterns) |-> Len(puppet_patterns) + 1 - k]

\* The lines a scored text is made of.
ScoreLines ==
    { "",
      "subclass x",
      "Class apache::mod {",
      "  file { '/etc/motd':",
      "    ensure => 'present',",
      "Include base",
      "node 'web' { notify => $svc }" }

MaxAppends == 2

InitScore ==
    /\ raw_files = <<>> /\ web_file = Absent /\ pdf_file = Absent
    /\ InitCreator
    /\ pc = "score"
    /\ web = Idle /\ pdf = Idle /\ github = Idle /\ clean = Idle /\ related = Idle
    /\ \E line \in ScoreLines : scored = [codes |-> <<line>>, scores |-> <<>>]

ScoreUnchanged ==
    UNCHANGED <<raw_files, web_file, pdf_file, training_examples, unique_examples,
                final_corpus, test_corpus, pc, calls, web, pdf, github, clean, related>>

\* Line 103 on the text as it stands.
score_code ==
    /\ pc = "score"
    /\ Len(scored.scores) < Len(scored.codes)
    /\ scored' = [scored EXCEPT
                    !.scores = Append(@, puppet_score(scored.codes[Len(scored.codes)]))]
    /\ ScoreUnchanged

\* The text grows by one line.
append_line ==
    /\ pc = "score"
    /\ Len(scored.scores) = Len(scored.codes)
    /\ Len(scored.codes) <= MaxAppends
    /\ \E line \in ScoreLines :
          scored' = [scored EXCEPT
                       !.codes = Append(@, @[Len(@)] \o "\n" \o line)]
    /\ ScoreUnchanged

NextScore == score_code \/ append_line

SpecScore == InitScore /\ [][NextScore]_vars

---------------------------------------------------------------------------
(* WebsitePuppetScraper.extract_code_blocks.                               *)

\* str.endswith
EndsWith(s, t) == At(s, Len(s) - Len(t) + 1, t)

\* str.split(sep) for a one-character separator, from index i on.
RECURSIVE SplitOnFrom(_, _, _)
SplitOnFrom(s, i, sep) ==
    LET e == SpanNot(s, i, {sep})
    IN  IF e > Len(s) THEN <<Sub(s, i, Len(s))>>
        ELSE <<Sub(s, i, e - 1)>> \o SplitOnFrom(s, e + 1, sep)
SplitOn(s, sep) == SplitOnFrom(s, 1, sep)

\* str.replace(old, new), from index i on.
RECURSIVE ReplaceFrom(_, _, _, _)
ReplaceFrom(s, i, old, new) ==
    IF i > Len(s) THEN ""
    ELSE IF At(s, i, old) THEN new \o ReplaceFrom(s, i + Len(old), old, new)
    ELSE Ch(s, i) \o ReplaceFrom(s, i + 1, old, new)
Replace(s, old, new) == ReplaceFrom(s, 1, old, new)

\* ' '.join(classes): the value of the class attribute.
RECURSIVE JoinSpace(_)
JoinSpace(classes) ==
    IF classes = <<>> THEN ""
    ELSE IF Len(classes) = 1 THEN classes[1]
    ELSE classes[1] \o " " \o JoinSpace(Tail(classes))

\* No URL is taken for the URL of a raw manifest.
is_never_raw(url) == FALSE

\* Line 29: the URL of a raw manifest.
is_raw_url(url) == EndsWith(url, ".pp") \/ Contains(url, "raw.githubusercontent.com")

min_raw_length == 20
raw_file_score == 10

\* Lines 34-39: the description of a raw file.
raw_description(url) ==
    LET parts == SplitOn(url, "/")
        n == Len(parts)
        filename == parts[n]
        repo_info == SubSeq(parts, IF n - 3 < 1 THEN 1 ELSE n - 3, n - 1)
    IN  IF Len(repo_info) >= 2
        THEN "Puppet " \o Replace(repo_info[2], "puppetlabs-", "") \o " module - "
             \o Replace(filename, ".pp", "") \o " manifest"
        ELSE "Puppet manifest " \o filename

\* Lines 30-51: the examples of a raw file.
raw_examples(url, text) ==
    LET content == Strip(text)
    IN  IF content # "" /\ Len(content) > min_raw_length
        THEN << [code |-> content, description |-> raw_description(url), source |-> url,
                 puppet_score |-> raw_file_score, element_type |-> "raw_file",
                 element_classes |-> <<>>] >>
        ELSE <<>>

\* A CSS selector of code_selectors: a tag, and a class token ("class") or a
\* substring of the class attribute ("attr") the element must have.
Selector(tag, kind, value) == [tag |-> tag, kind |-> kind, value |-> value]

\* Lines 57-63
code_selectors ==
    << Selector("pre", "tag", ""), Selector("code", "tag", ""),
       Selector("div", "class", "highlight"), Selector("div", "class", "code"),
       Selector("div", "class", "codehilite"),
       Selector("div", "attr", "highlight"), Selector("div", "attr", "code"),
       Selector("div", "attr", "language"), Selector("div", "attr", "puppet"),
       Selector("span", "attr", "highlight") >>

\* soup.select(selector) on one element. An element of a parsed page has a
\* tag, its class tokens, the text get_text() returns for it, and the index of
\* its parent element (0 at the top).
selects(sel, el) ==
    /\ el.tag = sel.tag
    /\ sel.kind = "class" => sel.value \in Range(el.classes)
    /\ sel.kind = "attr" => Contains(JoinSpace(el.classes), sel.value)

\* The indexes of the elements of the page from index i on that sel selects,
\* in document order.
RECURSIVE select_from(_, _, _)
select_from(elements, i, sel) ==
    IF i > Len(elements) THEN <<>>
    ELSE (IF selects(sel, elements[i]) THEN <<i>> ELSE <<>>)
         \o select_from(elements, i + 1, sel)

\* Lines 66-69: all_code_elements, an element once for every selector that
\* selects it.
RECURSIVE all_code_elements(_, _)
all_code_elements(elements, k) ==
    IF k > Len(code_selectors) THEN <<>>
    ELSE select_from(elements, 1, code_selectors[k]) \o all_code_elements(elements, k + 1)

\* find_previous(tag): the nearest element before index i with that tag, 0 if
\* there is none.
RECURSIVE find_previous(_, _, _)
find_previous(elements, i, tag) ==
    IF i <= 1 THEN 0
    ELSE IF elements[i - 1].tag = tag THEN i - 1
    ELSE find_previous(elements, i - 1, tag)

max_description_length == 500
max_sibling_length == 300
description_tags == <<"h1", "h2", "h3", "h4", "h5", "h6", "p", "div">>
description_words == {"example", "puppet", "code", "manifest", "class", "define"}

\* Lines 134-139: the texts of the preceding elements, tag by tag.
RECURSIVE preceding_candidates(_, _, _)
preceding_candidates(elements, b, k) ==
    IF k > Len(description_tags) THEN <<>>
    ELSE LET prev == find_previous(elements, b, description_tags[k])
             text == IF prev = 0 THEN "" ELSE Strip(elements[prev].text)
         IN  (IF prev # 0 /\ text # "" /\ Len(text) < max_description_length
              THEN <<text>> ELSE <<>>)
             \o preceding_candidates(elements, b, k + 1)

\* Lines 142-149: the texts of the p, span and div children of the parent.
RECURSIVE sibling_candidates(_, _, _)
sibling_candidates(elements, b, i) ==
    IF i > Len(elements) THEN <<>>
    ELSE LET el == elements[i]
             text == Strip(el.text)
         IN  (IF /\ el.parent = elements[b].parent
                 /\ el.tag \in {"p", "span", "div"}
                 /\ i # b
                 /\ text # "" /\ Len(text) < max_sibling_length
              THEN <<text>> ELSE <<>>)
             \o sibling_candidates(elements, b, i + 1)

\* The first candidate that names one of description_words, from index i on.
RECURSIVE first_relevant(_, _)
first_relevant(candidates, i) ==
    IF i > Len(candidates) THEN candidates[1]
    ELSE IF \E w \in description_words : Contains(Lower(candidates[i]), w)
    THEN candidates[i]
    ELSE first_relevant(candidates, i + 1)

\* find_description(code_block, soup) for the element of index b.
find_description(elements, b) ==
    LET parent == elements[b].parent
        candidates ==
            preceding_candidates(elements, b, 1)
            \o (IF parent # 0 /\ elements[parent].tag \in {"div", "section", "article"}
                THEN sibling_candidates(elements, b, 1) ELSE <<>>)
    IN  IF candidates # <<>> THEN first_relevant(candidates, 1) ELSE ""

min_block_text == 10
admission_score == 2
admission_keywords == {"puppet", "manifest", ".pp"}

\* An admission that lets every block in.
admits_every_block(code, score) == TRUE

\* An admission by the score alone.
admits_by_score(code, score) == score >= admission_score

\* Line 105: the admission of a block of that puppet_score to the examples.
admits(code, score) ==
    \/ score >= admission_score
    \/ \E key \in admission_keywords : Contains(Lower(code), key)

\* Lines 73-118: the examples of the blocks from position k of blocks on.
RECURSIVE markup_examples(_, _, _, _)
markup_examples(url, elements, blocks, k) ==
    IF k > Len(blocks) THEN <<>>
    ELSE LET block == elements[blocks[k]]
             code == Strip(block.text)
             score == puppet_score(code)
         IN  (IF Len(code) >= min_block_text /\ admits(code, score)
              THEN << [code |-> code,
                       description |-> find_description(elements, blocks[k]),
                       source |-> url,
                       puppet_score |-> score,
                       element_type |-> block.tag,
                       element_classes |-> block.classes] >>
              ELSE <<>>)
             \o markup_examples(url, elements, blocks, k + 1)

\* The exceptions of requests.RequestException: a timeout, a network error and
\* the HTTPError that raise_for_status (line 24) raises for a status that is
\* not 2xx.
request_exceptions == {"timeout", "network_error", "http_error"}

\* A handler for requests.RequestException alone.
catches_request_exceptions(kind) == kind \in request_exceptions

\* The handlers of lines 122-127: requests.RequestException and every other
\* Exception, such as an error of the parser.
catches(kind) == kind \in request_exceptions \/ kind # "ok"

\* extract_code_blocks raises when its request or its parsing fails with an
\* exception no handler catches.
extract_raises(response) == response.kind # "ok" /\ ~catches(response.kind)

\* extract_code_blocks(url) for the response the request got: a request that
\* fails (timeout, network error, status that is not 2xx) and a body that
\* cannot be parsed are caught and give the empty list.
extract_examples(url, response) ==
    IF response.kind # "ok" THEN <<>>
    ELSE IF is_raw_url(url) THEN raw_examples(url, response.text)
    ELSE markup_examples(url, response.elements,
                         all_code_elements(response.elements, 1), 1)

\* The responses a request can get: a failure, or a body, which is the text
\* of a raw file or the elements of a parsed page.
Failed(kind) == [kind |-> kind, text |-> "", elements |-> <<>>]
Ok(text, elements) == [kind |-> "ok", text |-> text, elements |-> elements]
FailedResponses ==
    {Failed(kind) : kind \in {"timeout", "network_error", "http_error", "parse_error"}}

Element(tag, classes, text, parent) ==
    [tag |-> tag, classes |-> classes, text |-> text, parent |-> parent]

\* The texts of the code containers of a page.
ProseText == "just some prose, no puppet here"
BlockTexts == {ProseText,
               "$x = 1",
               "include apache_mod",
               "include puppet_agent",
               "class foo { ensure => present }"}
NestedTexts == {ProseText, "class foo { ensure => present }"}
HeadingTexts == {"Example manifest", "Overview"}

\* The elements of one block of a page whose first element has index n + 1:
\* a heading, a <pre>, a <pre> inside <div class="highlight">, or a
\* <div class="language-puppet"> that holds the text itself.
block_elements(block, n) ==
    IF block.kind = "h2" THEN <<Element("h2", <<>>, block.text, 0)>>
    ELSE IF block.kind = "pre" THEN <<Element("pre", <<>>, block.text, 0)>>
    ELSE IF block.kind = "highlight"
    THEN <<Element("div", <<"highlight">>, block.text, 0),
           Element("pre", <<>>, block.text, n + 1)>>
    ELSE <<Element("div", <<"language-puppet">>, block.text, 0)>>

RECURSIVE page_elements(_, _, _)
page_elements(blocks, k, elements) ==
    IF k > Len(blocks) THEN elements
    ELSE page_elements(blocks, k + 1,
                       elements \o block_elements(blocks[k], Len(elements)))
Page(blocks) == page_elements(blocks, 1, <<>>)

Blocks ==
    {[kind |-> "h2", text |-> t] : t \in HeadingTexts}
    \cup {[kind |-> "pre", text |-> t] : t \in BlockTexts}
    \cup {[kind |-> k, text |-> t] : k \in {"highlight", "language"}, t \in NestedTexts}

MaxBlocks == 2
Pages == {Page(bs) : bs \in UNION {[1..n -> Blocks] : n \in 0..MaxBlocks}}

ManifestBody == "class apache (\n  $port = 80,\n) {\n  package { 'httpd': ensure => installed }\n}\n"
RawBodies == {"", "  \n", "class a {}\n", "class a { include b::c }\n", ManifestBody}

RawUrl == "https://raw.githubusercontent.com/puppetlabs/puppetlabs-apache/main/manifests/init.pp"
ExtractUrls == {WebUrl, RawUrl, "https://example.com/site.pp"}

\* A body that is markup: two <pre> elements, as text and as parsed.
MarkupBody == "<pre>class foo { ensure => present }</pre><pre>include puppet_agent</pre>"
MarkupPage == Page(<<[kind |-> "pre", text |-> "class foo { ensure => present }"],
                     [kind |-> "pre", text |-> "include puppet_agent"]>>)

Responses(url) ==
    FailedResponses
    \cup (IF is_raw_url(url)
          THEN {Ok(text, <<>>) : text \in RawBodies} \cup {Ok(MarkupBody, MarkupPage)}
          ELSE {Ok("", page) : page \in Pages})

InitExtract ==
    /\ raw_files = <<>> /\ web_file = Absent /\ pdf_file = Absent
    /\ InitCreator
    /\ pc = "extract"
    /\ web = [url |-> "", response |-> Failed("none"), examples |-> <<>>,
              raised |-> FALSE]
    /\ pdf = Idle
    /\ github = Idle /\ clean = Idle /\ scored = Idle /\ related = Idle

\* One call of extract_code_blocks(url), with the response its request gets.
extract_code_blocks ==
    /\ pc = "extract"
    /\ \E url \in ExtractUrls :
        \E response \in Responses(url) :
            web' = [url |-> url, response |-> response,
                    examples |-> extract_examples(url, response),
                    raised |-> extract_raises(response)]
    /\ pc' = "extracted"
    /\ UNCHANGED <<raw_files, web_file, pdf_file, training_examples, unique_examples,
                   final_corpus, test_corpus, calls, pdf, github, clean, scored, related>>

NextExtract == extract_code_blocks

SpecExtract == InitExtract /\ [][NextExtract]_vars

---------------------------------------------------------------------------
(* WebsitePuppetScraper.find_related_links: one step per anchor of the     *)
(* page.                                                                   *)

\* urlsplit: the index of the colon that ends the scheme of url, 0 when url
\* has no scheme.
scheme_end(url) ==
    LET colon == SpanNot(url, 1, {":"})
    IN  IF /\ 1 < colon /\ colon <= Len(url)
           /\ \A k \in 1..(colon - 1) : Ch(url, k) \in CharsOf(LowerLetters)
        THEN colon ELSE 0

url_scheme(url) == Sub(url, 1, scheme_end(url) - 1)

\* urlparse(url).netloc: what lies between the // after the scheme and the
\* next /, ? or #.
netloc(url) ==
    LET start == scheme_end(url) + 1
    IN  IF At(url, start, "//")
        THEN Sub(url, start + 2, SpanNot(url, start + 2, {"/", "?", "#"}) - 1)
        ELSE ""

\* urlparse(url).path of a url without query and fragment.
url_path(url) ==
    LET start == scheme_end(url) + 1
    IN  IF At(url, start, "//")
        THEN Sub(url, SpanNot(url, start + 2, {"/", "?", "#"}), Len(url))
        ELSE Sub(url, start, Len(url))

\* The path up to its last slash: the directory a relative reference is
\* resolved in.
path_directory(path) ==
    IF Contains(path, "/")
    THEN Sub(path, 1, CHOOSE k \in 1..Len(path) :
                         /\ Ch(path, k) = "/"
                         /\ \A j \in (k + 1)..Len(path) : Ch(path, j) # "/")
    ELSE "/"

\* urljoin(base_url, href) for an absolute base_url and a non-empty href
\* without query, fragment and dot segments.
urljoin(base_url, href) ==
    IF scheme_end(href) > 0 THEN href
    ELSE IF At(href, 1, "//") THEN url_scheme(base_url) \o ":" \o href
    ELSE IF At(href, 1, "/")
    THEN url_scheme(base_url) \o "://" \o netloc(base_url) \o href
    ELSE url_scheme(base_url) \o "://" \o netloc(base_url)
         \o path_directory(url_path(base_url)) \o href

\* find_related_links, lines 168-176: each pattern is .*word.* and is
\* searched, so it matches the texts that hold the word on one line.
link_patterns == <<"puppet", "manifest", "class", "module", "type", "example", "tutorial">>

\* any(re.search(pattern, url_lower + ' ' + link_text) ...), line 195
suggests_puppet(full_url, text) ==
    \E k \in 1..Len(link_patterns) :
        Contains(Lower(full_url) \o " " \o Lower(text), link_patterns[k])

\* An <a> element: its href attribute and its text.
Anchor(href, text) == [href |-> href, text |-> text]

BaseUrl == "https://docs.acme.io/guide/index.html"

Anchors ==
    { Anchor("/docs/puppet/latest/types.html", "Resource Types"),
      Anchor("https://docs.acme.io/docs/puppet/latest/types.html", "Types again"),
      Anchor("about.html", "About us"),
      Anchor("install.html", "Tutorial: Install"),
      Anchor("https://forge.other.org/modules", "Modules"),
      Anchor("//docs.acme.io/Class/ref", "Reference"),
      Anchor("mailto:puppet@acme.io", "Write to us"),
      Anchor("", "puppet") }

MaxAnchors == 3
MaxLinks == 2

AnchorLists == UNION {[1..n -> Anchors] : n \in 0..MaxAnchors}

InitRelated ==
    /\ raw_files = <<>> /\ web_file = Absent /\ pdf_file = Absent
    /\ InitCreator
    /\ pc = "links"
    /\ web = Idle /\ pdf = Idle /\ github = Idle /\ clean = Idle /\ scored = Idle
    /\ \E all_links \in AnchorLists, max_links \in 0..MaxLinks :
          related = [base_url |-> BaseUrl, all_links |-> all_links,
                     max_links |-> max_links, i |-> 1, related_links |-> {},
                     stopped |-> FALSE, returned |-> <<>>]

RelatedUnchanged ==
    UNCHANGED <<raw_files, web_file, pdf_file, training_examples, unique_examples,
                final_corpus, test_corpus, calls, web, pdf, github, clean, scored>>

\* One turn of the loop of lines 179-199, on the anchor all_links[i].
link_turn ==
    /\ pc = "links"
    /\ ~related.stopped
    /\ related.i <= Len(related.all_links)
    /\ LET link == related.all_links[related.i]
           full_url == urljoin(related.base_url, link.href)
           skipped == [related EXCEPT !.i = @ + 1]
       IN  related' =
             IF link.href = "" THEN skipped
             ELSE IF netloc(full_url) # netloc(related.base_url) THEN skipped
             ELSE LET related_links ==
                        IF suggests_puppet(full_url, link.text)
                        THEN related.related_links \cup {full_url}
                        ELSE related.related_links
                  IN  [related EXCEPT
                         !.i = @ + 1,
                         !.related_links = related_links,
                         !.stopped = Cardinality(related_links) >= related.max_links]
    /\ pc' = pc
    /\ RelatedUnchanged

\* return list(related_links), line 201: the links of the set in some order.
return_related_links ==
    /\ pc = "links"
    /\ related.stopped \/ related.i > Len(related.all_links)
    /\ \E returned \in [1..Cardinality(related.related_links) -> related.related_links] :
          /\ \A a, b \in DOMAIN returned : returned[a] = returned[b] => a = b
          /\ related' = [related EXCEPT !.returned = returned]
    /\ pc' = "returned"
    /\ RelatedUnchanged

NextRelated == link_turn \/ return_related_links

SpecRelated == InitRelated /\ [][NextRelated]_vars

---------------------------------------------------------------------------
(* WebsitePuppetScraper.create_comprehensive_examples: the curated records. *)

curated_score == 10

\* A curated record: lines 385-389 and their like.
comprehensive_example(code, description) ==
    [code |-> code, description |-> description, source |-> "comprehensive_examples",
     puppet_score |-> curated_score, element_type |-> "curated", element_classes |-> <<>>]

\* Lines 361-384
apache_class_code ==
       "class apache {\n"
    \o "  package { 'apache2':\n"
    \o "    ensure => installed,\n"
    \o "  }\n"
    \o "  \n"
    \o "  service { 'apache2':\n"
    \o "    ensure  => running,\n"
    \o "    enable  => true,\n"
    \o "    require => Package['apache2'],\n"
    \o "  }\n"
    \o "  \n"
    \o "  file { '/var/www/html/index.html':\n"
    \o "    ensure  => file,\n"
    \o "    content => '<h1>Hello from Puppet!</h1>',\n"
    \o "    require => Package['apache2'],\n"
    \o "  }\n"
    \o "  \n"
    \o "  file { '/etc/apache2/sites-available/default':\n"
    \o "    ensure  => file,\n"
    \o "    source  => 'puppet:///modules/apache/default-site',\n"
    \o "    notify  => Service['apache2'],\n"
    \o "    require => Package['apache2'],\n"
    \o "  }\n"
    \o "}"

\* Lines 392-423
user_define_code ==
       "define create_user($username, $uid, $shell = '/bin/bash', $groups = []) {\n"
    \o "  user { $username:\n"
    \o "    ensure  => present,\n"
    \o "    uid     => $uid,\n"
    \o "    shell   => $shell,\n"
    \o "    home    => \"/home/${username}\",\n"
    \o "    groups  => $groups,\n"
    \o "    gid     => $username,\n"
    \o "  }\n"
    \o "  \n"
    \o "  group { $username:\n"
    \o "    ensure => present,\n"
    \o "    gid    => $uid,\n"
    \o "  }\n"
    \o "  \n"
    \o "  file { \"/home/${username}\":\n"
    \o "    ensure  => directory,\n"
    \o "    owner   => $username,\n"
    \o "    group   => $username,\n"
    \o "    mode    => '0755',\n"
    \o "    require => User[$username],\n"
    \o "  }\n"
    \o "  \n"
    \o "  file { \"/home/${username}/.bashrc\":\n"
    \o "    ensure  => file,\n"
    \o "    owner   => $username,\n"
    \o "    group   => $username,\n"
    \o "    mode    => '0644',\n"
    \o "    source  => 'puppet:///modules/users/bashrc',\n"
    \o "    require => File[\"/home/${username}\"],\n"
    \o "  }\n"
    \o "}"

\* Lines 431-459
lamp_node_code ==
       "node 'webserver.example.com' {\n"
    \o "  include apache\n"
    \o "  include mysql::server\n"
    \o "  include php\n"
    \o "  \n"
    \o "  package { ['php-mysql', 'php-gd', 'php-curl']:\n"
    \o "    ensure  => installed,\n"
    \o "    require => Class['php'],\n"
    \o "  }\n"
    \o "  \n"
    \o "  file { '/etc/apache2/sites-available/webapp.conf':\n"
    \o "    ensure  => file,\n"
    \o "    content => template('webapp/apache-vhost.erb'),\n"
    \o "    notify  => Service['apache2'],\n"
    \o "    require => Class['apache'],\n"
    \o "  }\n"
    \o "  \n"
    \o "  apache::site { 'webapp':\n"
    \o "    ensure  => enabled,\n"
    \o "    require => File['/etc/apache2/sites-available/webapp.conf'],\n"
    \o "  }\n"
    \o "  \n"
    \o "  mysql::db { 'webapp_db':\n"
    \o "    user     => 'webapp_user',\n"
    \o "    password => 'secure_password',\n"
    \o "    host     => 'localhost',\n"
    \o "    grant    => ['SELECT', 'INSERT', 'UPDATE', 'DELETE'],\n"
    \o "  }\n"
    \o "}"

\* Lines 467-502
mysql_class_code ==
       "class mysql::server (\n"
    \o "  $root_password = 'changeme',\n"
    \o "  $bind_address = '127.0.0.1',\n"
    \o "  $port = 3306,\n"
    \o "  $datadir = '/var/lib/mysql',\n"
    \o ") {\n"
    \o "  package { 'mysql-server':\n"
    \o "    ensure => installed,\n"
    \o "  }\n"
    \o "  \n"
    \o "  service { 'mysql':\n"
    \o "    ensure  => running,\n"
    \o "    enable  => true,\n"
    \o "    require => Package['mysql-server'],\n"
    \o "  }\n"
    \o "  \n"
    \o "  file { '/etc/mysql/mysql.conf.d/puppet.cnf':\n"
    \o "    ensure  => file,\n"
    \o "    content => template('mysql/puppet.cnf.erb'),\n"
    \o "    notify  => Service['mysql'],\n"
    \o "    require => Package['mysql-server'],\n"
    \o "  }\n"
    \o "  \n"
    \o "  exec { 'set-mysql-password':\n"
    \o "    unless  => \"mysqladmin -uroot -p${root_password} status\",\n"
    \o "    command => \"mysqladmin -uroot password ${root_password}\",\n"
    \o "    path    => ['/usr/bin', '/usr/sbin'],\n"
    \o "    require => Service['mysql'],\n"
    \o "  }\n"
    \o "  \n"
    \o "  mysql_user { 'root@localhost':\n"
    \o "    ensure        => 'present',\n"
    \o "    password_hash => mysql_password($root_password),\n"
    \o "    require       => Exec['set-mysql-password'],\n"
    \o "  }\n"
    \o "}"

\* Lines 510-548
nginx_class_code ==
       "class nginx (\n"
    \o "  $worker_processes = 'auto',\n"
    \o "  $worker_connections = 1024,\n"
    \o "  $sendfile = true,\n"
    \o "  $tcp_nopush = true,\n"
    \o ") {\n"
    \o "  package { 'nginx':\n"
    \o "    ensure => installed,\n"
    \o "  }\n"
    \o "  \n"
    \o "  service { 'nginx':\n"
    \o "    ensure  => running,\n"
    \o "    enable  => true,\n"
    \o "    require => Package['nginx'],\n"
    \o "  }\n"
    \o "  \n"
    \o "  file { '/etc/nginx/nginx.conf':\n"
    \o "    ensure  => file,\n"
    \o "    content => template('nginx/nginx.conf.erb'),\n"
    \o "    notify  => Service['nginx'],\n"
    \o "    require => Package['nginx'],\n"
    \o "  }\n"
    \o "  \n"
    \o "  file { '/etc/nginx/sites-available':\n"
    \o "    ensure  => directory,\n"
    \o "    require => Package['nginx'],\n"
    \o "  }\n"
    \o "  \n"
    \o "  file { '/etc/nginx/sites-enabled':\n"
    \o "    ensure  => directory,\n"
    \o "    require => Package['nginx'],\n"
    \o "  }\n"
    \o "  \n"
    \o "  # Remove default site\n"
    \o "  file { '/etc/nginx/sites-enabled/default':\n"
    \o "    ensure => absent,\n"
    \o "    notify => Service['nginx'],\n"
    \o "  }\n"
    \o "}"

\* Lines 556-596
nginx_vhost_define_code ==
       "define nginx::site (\n"
    \o "  $ensure = 'enabled',\n"
    \o "  $server_name = $title,\n"
    \o "  $root = \"/var/www/${title}\",\n"
    \o "  $index = 'index.html index.htm',\n"
    \o "  $access_log = \"/var/log/nginx/${title}_access.log\",\n"
    \o "  $error_log = \"/var/log/nginx/${title}_error.log\",\n"
    \o ") {\n"
    \o "  include nginx\n"
    \o "  \n"
    \o "  file { \"/etc/nginx/sites-available/${title}\":\n"
    \o "    ensure  => file,\n"
    \o "    content => template('nginx/site.erb'),\n"
    \o "    require => Class['nginx'],\n"
    \o "  }\n"
    \o "  \n"
    \o "  case $ensure {\n"
    \o "    'enabled': {\n"
    \o "      file { \"/etc/nginx/sites-enabled/${title}\":\n"
    \o "        ensure  => link,\n"
    \o "        target  => \"/etc/nginx/sites-available/${title}\",\n"
    \o "        require => File[\"/etc/nginx/sites-available/${title}\"],\n"
    \o "        notify  => Service['nginx'],\n"
    \o "      }\n"
    \o "    }\n"
    \o "    'disabled': {\n"
    \o "      file { \"/etc/nginx/sites-enabled/${title}\":\n"
    \o "        ensure => absent,\n"
    \o "        notify => Service['nginx'],\n"
    \o "      }\n"
    \o "    }\n"
    \o "  }\n"
    \o "  \n"
    \o "  file { $root:\n"
    \o "    ensure  => directory,\n"
    \o "    owner   => 'www-data',\n"
    \o "    group   => 'www-data',\n"
    \o "    mode    => '0755',\n"
    \o "    require => Class['nginx'],\n"
    \o "  }\n"
    \o "}"

\* Lines 604-640
firewall_class_code ==
       "class firewall {\n"
    \o "  # Ensure iptables is installed\n"
    \o "  package { 'iptables':\n"
    \o "    ensure => installed,\n"
    \o "  }\n"
    \o "  \n"
    \o "  # Default policies\n"
    \o "  exec { 'iptables-default-policy-input':\n"
    \o "    command => 'iptables -P INPUT DROP',\n"
    \o "    unless  => 'iptables -L INPUT | grep \"policy DROP\"',\n"
    \o "    path    => ['/sbin', '/usr/sbin'],\n"
    \o "    require => Package['iptables'],\n"
    \o "  }\n"
    \o "  \n"
    \o "  exec { 'iptables-default-policy-forward':\n"
    \o "    command => 'iptables -P FORWARD DROP',\n"
    \o "    unless  => 'iptables -L FORWARD | grep \"policy DROP\"',\n"
    \o "    path    => ['/sbin', '/usr/sbin'],\n"
    \o "    require => Package['iptables'],\n"
    \o "  }\n"
    \o "  \n"
    \o "  # Allow loopback\n"
    \o "  exec { 'iptables-allow-loopback':\n"
    \o "    command => 'iptables -A INPUT -i lo -j ACCEPT',\n"
    \o "    unless  => 'iptables -L INPUT | grep \"lo.*ACCEPT\"',\n"
    \o "    path    => ['/sbin', '/usr/sbin'],\n"
    \o "    require => Exec['iptables-default-policy-input'],\n"
    \o "  }\n"
    \o "  \n"
    \o "  # Allow established connections\n"
    \o "  exec { 'iptables-allow-established':\n"
    \o "    command => 'iptables -A INPUT -m state --state ESTABLISHED,RELATED -j ACCEPT',\n"
    \o "    unless  => 'iptables -L INPUT | grep \"state RELATED,ESTABLISHED\"',\n"
    \o "    path    => ['/sbin', '/usr/sbin'],\n"
    \o "    require => Exec['iptables-default-policy-input'],\n"
    \o "  }\n"
    \o "}"

\* A scraper without curated records.
no_comprehensive_examples == <<>>

\* Lines 357-650: the list the method returns.
create_comprehensive_examples ==
    << comprehensive_example(apache_class_code,
           "Complete Apache web server class with package, service, and file management"),
       comprehensive_example(user_define_code,
           "Comprehensive defined type for creating users with home directories and configuration"),
       comprehensive_example(lamp_node_code,
           "Complete node definition for a LAMP stack web server"),
       comprehensive_example(mysql_class_code,
           "Parameterized MySQL server class with configuration and security setup"),
       comprehensive_example(nginx_class_code,
           "Nginx web server class with parameterized configuration"),
       comprehensive_example(nginx_vhost_define_code,
           "Nginx virtual host defined type with enable/disable functionality"),
       comprehensive_example(firewall_class_code,
           "Basic firewall class with iptables rules for security") >>

---------------------------------------------------------------------------
(* WebsitePuppetScraper.scrape_puppet_docs, and the merge of what it saves. *)

\* Lines 206-213
urls ==
    << "https://raw.githubusercontent.com/puppetlabs/puppetlabs-apache/main/manifests/init.pp",
       "https://raw.githubusercontent.com/puppetlabs/puppetlabs-mysql/main/manifests/server.pp",
       "https://raw.githubusercontent.com/puppetlabs/puppetlabs-stdlib/main/manifests/init.pp",
       "https://raw.githubusercontent.com/puppetlabs/puppet/main/examples/hiera/site.pp",
       "https://raw.githubusercontent.com/puppetlabs/puppet/main/examples/standalone"
       \o "/environments/production/manifests/site.pp" >>

\* Lines 270-276
repos ==
    << "puppetlabs/puppetlabs-apache", "puppetlabs/puppetlabs-mysql",
       "puppetlabs/puppetlabs-postgresql", "puppetlabs/puppetlabs-nginx",
       "puppetlabs/puppetlabs-stdlib" >>

\* Lines 282-289
common_paths(repo) ==
    LET base == "https://raw.githubusercontent.com/" \o repo
    IN  << base \o "/main/manifests/init.pp", base \o "/master/manifests/init.pp",
           base \o "/main/manifests/server.pp", base \o "/main/manifests/install.pp",
           base \o "/main/manifests/config.pp", base \o "/main/manifests/service.pp" >>

min_manifest_length == 50
github_manifest_score == 10

\* Lines 297-310: the record of a manifest found in a repository.
github_manifest(repo, path, content) ==
    LET repo_parts == SplitOn(repo, "/")
        path_parts == SplitOn(path, "/")
        module_name == Replace(repo_parts[Len(repo_parts)], "puppetlabs-", "")
        manifest_type == Replace(path_parts[Len(path_parts)], ".pp", "")
    IN  [code |-> content,
         description |-> "Puppet " \o module_name \o " module - " \o manifest_type \o " manifest",
         source |-> path, puppet_score |-> github_manifest_score,
         element_type |-> "github_manifest", element_classes |-> <<>>]

\* The remote side of a run: the host is down, every request ending in a
\* timeout or a network error, or it is up and answers 200 with the body of
\* the files it holds and 404 for every other URL.
ShortManifest == "class a { include b::c }\n"
RemoteBodies == {ShortManifest, ManifestBody}
RemoteUrls ==
    {urls[1], urls[2], urls[4], common_paths(repos[1])[2], common_paths(repos[4])[6]}
MaxRemoteFiles == 2
Down(kind) == [down |-> kind, files |-> {}]
Up(files) == [down |-> "", files |-> files]
Remotes ==
    {Down(kind) : kind \in {"timeout", "network_error"}}
    \cup {Up(files) : files \in
            {fs \in SUBSET (RemoteUrls \X RemoteBodies) :
                /\ Cardinality(fs) <= MaxRemoteFiles
                /\ \A f, g \in fs : f[1] = g[1] => f = g}}

\* The response of the remote side to session.get(url).
respond_from(remote, url) ==
    IF remote.down # "" THEN Failed(remote.down)
    ELSE IF \E f \in remote.files : f[1] = url
    THEN Ok((CHOOSE f \in remote.files : f[1] = url)[2], <<>>)
    ELSE Failed("http_error")

\* A manifest is found whatever the length of the body of the answer.
found_any_body(response) == response.kind = "ok"

\* Lines 294-296: the answer to the request of a path gives a record: status
\* 200 and a body of more than 50 characters once stripped. A request that
\* raises is caught at line 314.
found_manifest(response) ==
    /\ response.kind = "ok"
    /\ Strip(response.text) # ""
    /\ Len(Strip(response.text)) > min_manifest_length

\* Lines 291-315: the loop over the paths of one repository from path k on,
\* with the response each request gets; it ends at the first manifest found.
RECURSIVE repo_examples(_, _, _)
repo_examples(remote, repo, k) ==
    IF k > Len(common_paths(repo)) THEN <<>>
    ELSE LET path == common_paths(repo)[k]
             response == respond_from(remote, path)
         IN  IF found_manifest(response)
             THEN <<github_manifest(repo, path, Strip(response.text))>>
             ELSE repo_examples(remote, repo, k + 1)

\* The paths that loop requests, in order: line 293.
RECURSIVE repo_requests(_, _, _)
repo_requests(remote, repo, k) ==
    IF k > Len(common_paths(repo)) THEN <<>>
    ELSE LET path == common_paths(repo)[k]
         IN  IF found_manifest(respond_from(remote, path)) THEN <<path>>
             ELSE <<path>> \o repo_requests(remote, repo, k + 1)

\* Lines 246-261: the summary of a run.
scraping_summary(all_examples, processed_urls) ==
    LET sources == {all_examples[i].source : i \in 1..Len(all_examples)}
    IN  [total_examples |-> Len(all_examples),
         urls_processed |-> processed_urls,
         examples_by_source |->
            [s \in sources |->
                Cardinality({i \in 1..Len(all_examples) : all_examples[i].source = s})]]

\* No request of a run gets an answer.
unreachable(remote) == remote.files = {}

InitWeb ==
    /\ raw_files = <<>> /\ web_file = Absent /\ pdf_file = Absent
    /\ InitCreator
    /\ pc = "scrape_urls"
    /\ \E remote \in Remotes :
        web = [remote |-> remote, url_index |-> 1, repo_index |-> 1,
               all_examples |-> <<>>, processed_urls |-> {},
               repo_requests |-> <<>>,
               summary |-> scraping_summary(<<>>, {})]
    /\ pdf = Idle
    /\ github = Idle /\ clean = Idle /\ scored = Idle /\ related = Idle

WebMergeUnchanged ==
    UNCHANGED <<raw_files, pdf_file, training_examples, unique_examples,
                final_corpus, test_corpus, calls, pdf, github, clean, scored, related>>

\* Lines 218-228: one turn of the loop over urls.
scrape_url ==
    /\ pc = "scrape_urls"
    /\ LET url == urls[web.url_index]
           response == respond_from(web.remote, url)
           examples == extract_examples(url, response)
       IN  IF extract_raises(response)
           THEN pc' = "aborted" /\ UNCHANGED web
           ELSE /\ web' = [web EXCEPT !.all_examples = @ \o examples,
                                      !.processed_urls = @ \cup {url},
                                      !.url_index = @ + 1]
                /\ pc' = IF web.url_index = Len(urls) THEN "scrape_repos"
                         ELSE "scrape_urls"
    /\ UNCHANGED web_file
    /\ WebMergeUnchanged

\* Lines 278-315, called at line 232: one turn of the loop over repos.
scrape_github_repos ==
    /\ pc = "scrape_repos"
    /\ LET repo == repos[web.repo_index]
       IN  web' = [web EXCEPT !.all_examples = @ \o repo_examples(web.remote, repo, 1),
                              !.repo_requests = Append(@, repo_requests(web.remote, repo, 1)),
                              !.repo_index = @ + 1]
    /\ pc' = IF web.repo_index = Len(repos) THEN "scrape_save" ELSE "scrape_repos"
    /\ UNCHANGED web_file
    /\ WebMergeUnchanged

\* Lines 235-263: the curated records are added and the corpus is saved.
save_web_examples ==
    /\ pc = "scrape_save"
    /\ LET all_examples == web.all_examples \o create_comprehensive_examples
       IN  /\ web' = [web EXCEPT !.all_examples = all_examples,
                                 !.summary = scraping_summary(all_examples,
                                                              web.processed_urls)]
           /\ web_file' = JsonList(all_examples)
    /\ pc' = "web_saved"
    /\ WebMergeUnchanged

\* The merge of the saved corpus.
web_process_examples == pc = "web_saved" /\ do_web("web_merged")
web_create_final_dataset == pc = "web_merged" /\ do_final("done")

NextWeb ==
    \/ scrape_url
    \/ scrape_github_repos
    \/ save_web_examples
    \/ web_process_examples
    \/ web_create_final_dataset

SpecWeb == InitWeb /\ [][NextWeb]_vars

---------------------------------------------------------------------------
(* PDFPuppetExtractor.extract_from_pdf: one step per line of the document. *)

\* str(n) of a natural number.
RECURSIVE IntToStr(_)
IntToStr(n) == IF n < 10 THEN Ch(Digits, n + 1)
               ELSE IntToStr(n \div 10) \o Ch(Digits, (n % 10) + 1)

\* \d+ at index i of s: the index after the digits, 0 if there is no digit.
DigitsAt(s, i) ==
    LET j == Span(s, i, DigitChars) IN IF j > i THEN j ELSE 0

\* re.match(r'^(Chapter \d+|Section \d+|\d+\.\d+)', line), line 31
is_section_header(line) ==
    \/ At(line, 1, "Chapter ") /\ DigitsAt(line, 9) # 0
    \/ At(line, 1, "Section ") /\ DigitsAt(line, 9) # 0
    \/ LET j == DigitsAt(line, 1)
       IN  j # 0 /\ At(line, j, ".") /\ DigitsAt(line, j + 1) # 0

\* kw\s*{ at the start of s
ResourceOpenerAt(s, kw) ==
    At(s, 1, kw) /\ At(s, Span(s, 1 + Len(kw), Whitespace), "{")

\* The pattern of line 35, matched at the start of the stripped line.
opens_code_block(line) ==
    LET t == Strip(line)
    IN  \/ KeywordAt(t, 1, "class")
        \/ KeywordAt(t, 1, "define")
        \/ At(t, 1, "node") /\ Span(t, 5, Whitespace) > 5
        \/ \E kw \in {"file", "package", "service", "exec"} : ResourceOpenerAt(t, kw)

\* The condition of line 40: the line belongs to the open block.
continues_code_block(line) ==
    \/ At(line, 1, " ")
    \/ At(line, 1, "\t")
    \/ Contains(line, "=>")
    \/ EndsWith(Strip(line), ",")
    \/ Strip(line) = "}"

min_block_lines == 2
min_block_length == 50

\* The quality filter without its test of the length of the block.
accepts_block_any_length(code_buffer) ==
    LET code == JoinLines(code_buffer)
    IN  /\ code_buffer # <<>>
        /\ Len(code_buffer) > min_block_lines
        /\ Contains(code, "=>") \/ Contains(code, "class ") \/ Contains(code, "define ")

\* The quality filter of lines 44-47 on the buffered block.
accepts_block(code_buffer) ==
    LET code == JoinLines(code_buffer)
    IN  /\ code_buffer # <<>>
        /\ Len(code_buffer) > min_block_lines
        /\ Contains(code, "=>") \/ Contains(code, "class ") \/ Contains(code, "define ")
        /\ Len(Strip(code)) > min_block_length

\* The record with the index of the page in place of its number.
pdf_example_zero_based(code_buffer, current_section, page_num) ==
    [code |-> JoinLines(code_buffer),
     section |-> current_section,
     page |-> page_num,
     description |-> "From " \o current_section \o " on page " \o IntToStr(page_num),
     source |-> "PDF page " \o IntToStr(page_num)]

\* The record of lines 48-54; page_num counts from 0.
pdf_example(code_buffer, current_section, page_num) ==
    [code |-> JoinLines(code_buffer),
     section |-> current_section,
     page |-> page_num + 1,
     description |-> "From " \o current_section \o " on page " \o IntToStr(page_num + 1),
     source |-> "PDF page " \o IntToStr(page_num + 1)]

\* The lines a document is made of.
PdfLines == {"class foo {", "  ensure => present,", "}", "",
             "  content => 'Welcome to the managed host',",
             "Chapter 1", "  file { 'motd':"}

MaxPageLines == 4
MaxShortPageLines == 1

LineSeqs(n) == UNION {[1..k -> PdfLines] : k \in 1..n}

\* Documents of one page of up to MaxPageLines lines, of two short pages, and
\* the document without pages.
PdfDocuments ==
    {<<>>}
    \cup {<<JoinLines(ls)>> : ls \in LineSeqs(MaxPageLines)}
    \cup {<<JoinLines(a), JoinLines(b)>> : a, b \in LineSeqs(MaxShortPageLines)}

InitPdf ==
    /\ raw_files = <<>> /\ web_file = Absent /\ pdf_file = Absent
    /\ InitCreator
    /\ pc = "pdf_scan"
    /\ web = Idle
    /\ github = Idle /\ clean = Idle /\ scored = Idle /\ related = Idle
    /\ \E pages \in PdfDocuments :
        pdf = [pages |-> pages, page_num |-> 0, line_num |-> 1,
               current_section |-> "", code_buffer |-> <<>>,
               in_code_block |-> FALSE, examples |-> <<>>]

\* The lines of the page being read.
page_lines == SplitLines(pdf.pages[pdf.page_num + 1])

\* One iteration of the loop of line 29, on the next line of the document.
extract_line ==
    /\ pc = "pdf_scan"
    /\ pdf.page_num < Len(pdf.pages)
    /\ LET line == page_lines[pdf.line_num]
           section == IF is_section_header(line) THEN Strip(line)
                      ELSE pdf.current_section
           last == pdf.line_num = Len(page_lines)
           closes == pdf.in_code_block /\ ~opens_code_block(line)
                     /\ ~continues_code_block(line)
       IN  pdf' = [pdf EXCEPT
                !.current_section = section,
                !.page_num = IF last THEN @ + 1 ELSE @,
                !.line_num = IF last THEN 1 ELSE @ + 1,
                !.in_code_block = IF opens_code_block(line) THEN TRUE
                                  ELSE IF closes THEN FALSE ELSE @,
                !.code_buffer = IF opens_code_block(line) THEN <<line>>
                                ELSE IF closes THEN <<>>
                                ELSE IF pdf.in_code_block THEN Append(@, line)
                                ELSE @,
                !.examples = IF closes /\ accepts_block(pdf.code_buffer)
                             THEN Append(@, pdf_example(pdf.code_buffer, section,
                                                        pdf.page_num))
                             ELSE @]
    /\ UNCHANGED <<raw_files, web_file, pdf_file, training_examples, unique_examples,
                   final_corpus, test_corpus, pc, calls, web, github, clean, scored, related>>

\* Lines 58-63: after the last page the examples are written and returned.
save_pdf_examples ==
    /\ pc = "pdf_scan"
    /\ pdf.page_num = Len(pdf.pages)
    /\ pdf_file' = JsonList(pdf.examples)
    /\ pc' = "pdf_done"
    /\ UNCHANGED <<raw_files, web_file, training_examples, unique_examples,
                   final_corpus, test_corpus, calls, web, pdf, github, clean, scored, related>>

NextPdf == extract_line \/ save_pdf_examples

SpecPdf == InitPdf /\ [][NextPdf]_vars

---------------------------------------------------------------------------
(* PuppetDatasetCreator.clean_puppet_code called on a text and then on     *)
(* what it returned.                                                       *)

\* The characters the texts are made of: a letter, the space, the tab and
\* the newline.
CleanAlphabet == {"a", " ", "\t", "\n"}

MaxCleanLen == 7
MaxCleanCalls == 2

\* The texts of up to n characters.
RECURSIVE CleanTexts(_)
CleanTexts(n) ==
    IF n = 0 THEN {""}
    ELSE LET shorter == CleanTexts(n - 1)
         IN  shorter \cup {t \o c : t \in shorter, c \in CleanAlphabet}

InitClean ==
    /\ raw_files = <<>> /\ web_file = Absent /\ pdf_file = Absent
    /\ InitCreator
    /\ pc = "clean"
    /\ web = Idle /\ pdf = Idle /\ github = Idle /\ scored = Idle /\ related = Idle
    /\ \E code \in CleanTexts(MaxCleanLen) : clean = [code |-> code, outputs |-> <<>>]

\* clean_puppet_code(code), then clean_puppet_code of each value returned.
call_clean_puppet_code ==
    /\ pc = "clean"
    /\ Len(clean.outputs) < MaxCleanCalls
    /\ LET code == IF clean.outputs = <<>> THEN clean.code
                   ELSE clean.outputs[Len(clean.outputs)]
       IN  clean' = [clean EXCEPT !.outputs = Append(@, clean_puppet_code(code))]
    /\ UNCHANGED <<raw_files, web_file, pdf_file, training_examples, unique_examples,
                   final_corpus, test_corpus, pc, calls, web, pdf, github, scored, related>>

NextClean == call_clean_puppet_code

SpecClean == InitClean /\ [][NextClean]_vars

---------------------------------------------------------------------------
(* The merge run of the script on a raw data directory of many manifests.  *)

\* The i-th manifest of the directory: a class of its own, or a copy of the
\* manifest `of`.
ManifestFile(i, of) ==
    [path |-> "raw/module_" \o IntToStr(i) \o "/manifests_init.pp",
     content |-> "class c" \o IntToStr(of) \o " {\n  include base\n}\n",
     decodable |-> TRUE]

\* n manifests of n classes, then copies of the first of them.
ManifestFiles(n, copies) ==
    [i \in 1..(n + copies) |-> ManifestFile(i, IF i <= n THEN i ELSE i - n)]

MaxSmallCorpus == 21
MaxCopies == 1

\* The least number of records whose tenth is more than max_test_size.
LargeCorpus == (max_test_size + 1) * test_fraction

\* The numbers of classes of the directory: around the first record of the
\* held-out file and around its limit.
CorpusSizes == 0..MaxSmallCorpus \cup {LargeCorpus - 1, LargeCorpus}

\* The script starts on a directory of one of the given numbers of classes.
InitCorpusOf(sizes) ==
    /\ \E n \in sizes : \E copies \in 0..MaxCopies :
        /\ copies <= n
        /\ raw_files = ManifestFiles(n, copies)
    /\ web_file = Absent /\ pdf_file = Absent
    /\ InitCreator
    /\ pc = "main_github"
    /\ web = Idle /\ pdf = Idle /\ github = Idle /\ clean = Idle /\ scored = Idle /\ related = Idle

InitCorpus == InitCorpusOf(CorpusSizes)
InitSmallCorpus == InitCorpusOf(0..MaxSmallCorpus)

SpecSmallCorpus == InitSmallCorpus /\ [][NextMain]_vars
SpecCorpus == InitCorpus /\ [][NextMain]_vars

---------------------------------------------------------------------------
(* GitHubPuppetScraper (data_collection/github_puppet_scraper.py): the     *)
(* repositories of the script, one request per step.                       *)

\* Lines 74-80
github_repos ==
    << "https://github.com/puppetlabs/puppetlabs-apache",
       "https://github.com/puppetlabs/puppetlabs-mysql",
       "https://github.com/puppetlabs/puppetlabs-stdlib",
       "https://github.com/voxpupuli/puppet-nginx",
       "https://github.com/puppetlabs/puppetlabs-docker" >>

\* The first repositories of the list are scraped.
MaxRepos == 2
repo_list == SubSeq(github_repos, 1, MaxRepos)

\* Lines 28-30: owner and repository name of a repository URL.
repo_parts(repo_url) ==
    LET parts == SplitOn(Sub(repo_url, 1, SpanBack(repo_url, Len(repo_url), {"/"})), "/")
    IN  [owner |-> parts[Len(parts) - 1], repo |-> parts[Len(parts)]]

\* Line 9 and line 33
github_output_dir == "raw_puppet_data"
repo_dir(repo_url) ==
    github_output_dir \o "/" \o repo_parts(repo_url).owner \o "_" \o repo_parts(repo_url).repo

\* Line 37
api_url(repo_url) ==
    "https://api.github.com/repos/" \o repo_parts(repo_url).owner \o "/"
    \o repo_parts(repo_url).repo \o "/git/trees/main?recursive=1"

\* Line 52
raw_url(repo_url, file_path) ==
    "https://raw.githubusercontent.com/" \o repo_parts(repo_url).owner \o "/"
    \o repo_parts(repo_url).repo \o "/main/" \o file_path

\* Line 55
local_path(repo_url, file_path) == repo_dir(repo_url) \o "/" \o Replace(file_path, "/", "_")

\* Line 45: the paths of the tree that end in .pp.
puppet_files(tree) == SelectSeq(tree, LAMBDA path : EndsWith(path, ".pp"))

\* What requests.get(url) can do: return a response with a status and a
\* body, or raise an exception of requests (a timeout, a network error).
Response(status, body) == [raises |-> "", status |-> status, body |-> body]
Raises(kind) == [raises |-> kind, status |-> 0, body |-> ""]
RequestErrors == {Raises("timeout"), Raises("network_error")}

\* The trees a listing can hold and the answers to the listing request.
Trees == {<<"README.md">>, <<"manifests/init.pp", "README.md", "manifests/params.pp">>,
          <<"manifests/init.pp", "manifests_init.pp">>}
TreeResponses ==
    {Response(200, tree) : tree \in Trees}
    \cup {Response(404, <<>>), Response(403, <<>>)}
    \cup RequestErrors

\* The answers to the request of a file.
FileResponses ==
    {Response(200, ShortManifest), Response(404, "")} \cup RequestErrors

InitGithub ==
    /\ raw_files = <<>> /\ web_file = Absent /\ pdf_file = Absent
    /\ InitCreator
    /\ pc = "github_repo"
    /\ web = Idle /\ pdf = Idle /\ clean = Idle /\ scored = Idle /\ related = Idle
    /\ github = [repo_index |-> 1, file_index |-> 1,
                 trees |-> <<>>,       \* puppet_files of the repositories listed so far
                 requests |-> <<>>,    \* every request made, with its answer
                 dirs |-> {},          \* the folders made
                 files |-> <<>>]       \* the local files written

GithubUnchanged ==
    UNCHANGED <<raw_files, web_file, pdf_file, training_examples, unique_examples,
                final_corpus, test_corpus, calls, web, pdf, clean, scored, related>>

\* Where the run goes after repository k is finished: line 64.
after_repo(k) == IF k >= Len(repo_list) THEN "github_done" ELSE "github_repo"

\* scrape_repo up to its loop, lines 28-47, for the next repository of
\* scrape_multiple_repos (lines 64-66). An exception of requests.get at line 39
\* is caught nowhere: it ends scrape_multiple_repos and the script.
scrape_repo ==
    /\ pc = "github_repo"
    /\ github.repo_index <= Len(repo_list)
    /\ \E response \in TreeResponses :
        LET repo_url == repo_list[github.repo_index]
            request == [url |-> api_url(repo_url), response |-> response]
            found == IF response.raises = "" /\ response.status = 200
                     THEN puppet_files(response.body) ELSE <<>>
        IN  /\ github' = [github EXCEPT
                    !.dirs = @ \cup {repo_dir(repo_url)},
                    !.requests = Append(@, request),
                    !.trees = Append(@, found),
                    !.file_index = 1,
                    !.repo_index = IF response.raises = "" /\ found = <<>>
                                   THEN @ + 1 ELSE @]
            /\ pc' = IF response.raises # "" THEN "aborted"
                     ELSE IF found = <<>> THEN after_repo(github.repo_index)
                     ELSE "github_files"
    /\ GithubUnchanged

\* One turn of the loop of lines 50-60 with its call of download_file (lines
\* 13-20). An exception of requests.get at line 15 is caught nowhere.
download_file ==
    /\ pc = "github_files"
    /\ \E response \in FileResponses :
        LET repo_url == repo_list[github.repo_index]
            found == github.trees[github.repo_index]
            file_path == found[github.file_index]
            request == [url |-> raw_url(repo_url, file_path), response |-> response]
            last == github.file_index = Len(found)
        IN  IF response.raises # ""
            THEN /\ github' = [github EXCEPT !.requests = Append(@, request)]
                 /\ pc' = "aborted"
            ELSE /\ github' = [github EXCEPT
                        !.requests = Append(@, request),
                        !.files = IF response.status = 200
                                  THEN Append(@, [path |-> local_path(repo_url, file_path),
                                                  content |-> response.body])
                                  ELSE @,
                        !.file_index = IF last THEN 1 ELSE @ + 1,
                        !.repo_index = IF last THEN @ + 1 ELSE @]
                 /\ pc' = IF last THEN after_repo(github.repo_index) ELSE "github_files"
    /\ GithubUnchanged

NextGithub == scrape_repo \/ download_file

SpecGithub == InitGithub /\ [][NextGithub]_vars

---------------------------------------------------------------------------
(* The candidates of a run and the records that come from them.            *)

\* The candidate records of the inputs: a source and a position in it.
CandidateIds ==
    ({"github"} \X (1..Len(raw_files)))
    \cup ({"web"} \X (1..Len(web_file.records)))
    \cup ({"pdf"} \X (1..Len(pdf_file.records)))

CandidateRecord(c) ==
    IF c[1] = "github"
    THEN [code |-> raw_files[c[2]].content, source |-> raw_files[c[2]].path]
    ELSE IF c[1] = "web" THEN web_file.records[c[2]]
    ELSE pdf_file.records[c[2]]

\* A candidate that can be read and has the fields the normalizer reads.
WellFormed(c) ==
    /\ c[1] = "github" => raw_files[c[2]].decodable
    /\ Has(CandidateRecord(c), "code")
    /\ Has(CandidateRecord(c), "source")
    /\ c[1] # "github" => Has(CandidateRecord(c), "description")

WellFormedCandidates == {c \in CandidateIds : WellFormed(c)}

\* The training record r is the one the normalizer makes of candidate c.
MadeFrom(r, c) ==
    /\ r.output = clean_puppet_code(CandidateRecord(c).code)
    /\ r.source = CandidateRecord(c).source

\* The positions of the final corpus whose record was made from candidate c.
FinalFrom(c) == {i \in 1..Len(unique_examples) : MadeFrom(unique_examples[i], c)}

\* str.rstrip()
RStrip(s) == Sub(s, 1, SpanBack(s, Len(s), Whitespace))

\* Lines with every blank line that follows a blank line left out.
RECURSIVE SqueezeBlankLines(_, _)
SqueezeBlankLines(lines, i) ==
    IF i > Len(lines) THEN <<>>
    ELSE IF i > 1 /\ lines[i] = "" /\ lines[i - 1] = ""
    THEN SqueezeBlankLines(lines, i + 1)
    ELSE <<lines[i]>> \o SqueezeBlankLines(lines, i + 1)

\* A text without its trailing whitespace, line by line, and with every run of
\* blank lines reduced to one: two texts that differ only in trailing
\* whitespace and in the number of consecutive blank lines have the same one.
TrailingForm(s) ==
    LET lines == SplitLines(s)
    IN  SqueezeBlankLines([i \in 1..Len(lines) |-> RStrip(lines[i])], 1)

---------------------------------------------------------------------------
(* Claims.                                                                 *)

\* C1: once create_final_dataset has written the final corpus, whatever calls
\* came before, the corpus is the formatted survivors and no two of them have
\* outputs that are equal after every run of whitespace is replaced by a space.
C1_NoDuplicateOutputs ==
    final_corpus.state = "list" =>
        /\ Len(final_corpus.records) = Len(unique_examples)
        /\ \A i \in 1..Len(unique_examples) :
            final_corpus.records[i] = format_example(unique_examples[i])
        /\ \A i, j \in 1..Len(unique_examples) :
            i # j => Collapse(unique_examples[i].output) # Collapse(unique_examples[j].output)

\* The corpus was written, holds two records, and a duplicate was dropped.
C1_Witness ==
    /\ final_corpus.state = "list"
    /\ Len(unique_examples) >= 2
    /\ Len(training_examples) > Len(unique_examples)

\* C2: of two candidates loaded into the merge whose raw codes are equal after
\* whitespace-collapse, at most one appears in the final corpus.
C2_RawCollapseDedup ==
    final_corpus.state = "list" =>
        \A c1, c2 \in WellFormedCandidates :
            (/\ c1 # c2
             /\ Collapse(CandidateRecord(c1).code) = Collapse(CandidateRecord(c2).code))
            => ~ \E i \in FinalFrom(c1), j \in FinalFrom(c2) : i # j

\* C3: two candidates that were both admitted and whose codes differ only in
\* trailing whitespace and in the number of consecutive blank lines have the
\* same normalized form and make exactly one record of the final corpus.
C3_TrailingWhitespaceDedup ==
    final_corpus.state = "list" =>
        \A c1, c2 \in WellFormedCandidates :
            (/\ c1 # c2
             /\ \E r \in Range(training_examples) : MadeFrom(r, c1)
             /\ \E r \in Range(training_examples) : MadeFrom(r, c2)
             /\ TrailingForm(CandidateRecord(c1).code)
                    = TrailingForm(CandidateRecord(c2).code))
            => /\ Collapse(clean_puppet_code(CandidateRecord(c1).code))
                    = Collapse(clean_puppet_code(CandidateRecord(c2).code))
               /\ Cardinality(FinalFrom(c1) \cup FinalFrom(c2)) = 1

\* C4: in every intake path a candidate of exactly 29 characters never becomes
\* a training record, and one of exactly 30 characters (of score >= 3 if it is
\* a web record) does, once its source has been processed.
C4_AdmissionGate ==
    \A c \in WellFormedCandidates :
        /\ Len(CandidateRecord(c).code) = 29
            => ~ \E r \in Range(training_examples) : MadeFrom(r, c)
        /\ (/\ Len(CandidateRecord(c).code) = 30
            /\ c[1] \in Range(calls)
            /\ pc # "aborted"
            /\ c[1] = "web" => get_puppet_score(CandidateRecord(c)) >= 3)
            => \E r \in Range(training_examples) : MadeFrom(r, c)

\* C5: no training record has the instruction "Classes", "Puppet" or "".
C5_NoPlaceholderInstruction ==
    \A r \in Range(training_examples) : r.instruction \notin {"Classes", "Puppet", ""}

\* C6: when every request of a scrape_puppet_docs run fails, by a timeout, a
\* network error or a status that is not 2xx, the corpus it saves holds every
\* curated record, and process_web_examples followed by create_final_dataset
\* writes a final corpus of at least one record.
C6_CuratedFallback ==
    unreachable(web.remote) =>
        /\ pc \in {"web_saved", "web_merged", "done"} =>
            /\ web_file.state = "list"
            /\ \A k \in 1..Len(create_comprehensive_examples) :
                    create_comprehensive_examples[k] \in Range(web_file.records)
        /\ pc = "done" =>
            /\ final_corpus.state = "list"
            /\ Len(final_corpus.records) >= 1

\* A run whose every request ended in a timeout saved its corpus, and the
\* merge of that corpus wrote the final corpus.
C6_Witness ==
    /\ pc = "done"
    /\ web.remote = Down("timeout")
    /\ web.url_index > Len(urls) /\ web.repo_index > Len(repos)
    /\ calls = <<"web">>
    /\ final_corpus.state = "list"

\* C7: the merge run of the script never aborts, and when it is done the final
\* corpus is written.
C7_MergeNeverAborts ==
    /\ pc # "aborted"
    /\ pc = "done" => final_corpus.state = "list"

\* The page of the scenario: three lines and a final newline.
ScenarioPage == "class foo {\n  ensure => present,\n}\n"

\* C10 as stated: the one-page document of the scenario yields exactly one
\* candidate record.
C10_ScenarioYieldsOne ==
    (pc = "pdf_done" /\ pdf.pages = <<ScenarioPage>>)
        => Len(pdf.examples) = 1 /\ Len(pdf_file.records) = 1

\* C10 amended: the document of the scenario yields no candidate record; its
\* block of three lines holds the arrow but is 34 characters long, not more
\* than 50.
C10_ScenarioYieldsNone ==
    (pc = "pdf_done" /\ pdf.pages = <<ScenarioPage>>)
        => /\ pdf.examples = <<>>
           /\ pdf_file = JsonList(<<>>)
           /\ pdf.code_buffer = <<>>

\* The document of the scenario was read to its end: its block was opened by
\* the first line and closed by the empty last line.
C10_Witness ==
    /\ pc = "pdf_done"
    /\ pdf.pages = <<ScenarioPage>>
    /\ ~pdf.in_code_block
    /\ pdf.page_num = 1

\* C8 as stated: every record that extract_code_blocks emits from the markup
\* path has a puppet_score of at least 2.
C8_MarkupScoreAtLeastTwo ==
    (pc = "extracted" /\ ~is_raw_url(web.url))
        => \A r \in Range(web.examples) : r.puppet_score >= 2

\* C8 amended: every record emitted from the markup path has a puppet_score of
\* at least 2 or a text that holds, in any case, one of the keywords "puppet",
\* "manifest", ".pp"; its puppet_score is the number of patterns that match.
C8_MarkupScoreOrKeyword ==
    (pc = "extracted" /\ ~is_raw_url(web.url))
        => \A r \in Range(web.examples) :
            /\ \/ r.puppet_score >= 2
               \/ \E key \in {"puppet", "manifest", ".pp"} : Contains(Lower(r.code), key)
            /\ Len(r.code) >= 10

\* A page gave a record of score below 2 and a record of score 2 or more.
C8_Witness ==
    /\ pc = "extracted"
    /\ ~is_raw_url(web.url)
    /\ \E r \in Range(web.examples) : r.puppet_score < 2
    /\ \E r \in Range(web.examples) : r.puppet_score >= 2

\* The page of the scenario: one <pre> element with the prose text.
ProsePage == Page(<<[kind |-> "pre", text |-> ProseText]>>)

\* C9 as stated: the page whose only code container is a <pre> with the text
\* 'just some prose, no puppet here' yields no candidate record.
C9_ProseYieldsNone ==
    (pc = "extracted" /\ ~is_raw_url(web.url) /\ web.response = Ok("", ProsePage))
        => web.examples = <<>>

\* C9 amended: that page yields exactly one candidate record, of score 0, whose
\* code is the text of the <pre>: the text holds the keyword "puppet".
C9_ProseYieldsOne ==
    (pc = "extracted" /\ ~is_raw_url(web.url) /\ web.response = Ok("", ProsePage))
        => /\ Len(web.examples) = 1
           /\ web.examples[1].code = ProseText
           /\ web.examples[1].puppet_score = 0
           /\ web.examples[1].element_type = "pre"
           /\ Contains(web.examples[1].code, "puppet")

\* The page of the scenario was fetched and its blocks were examined.
C9_Witness ==
    /\ pc = "extracted"
    /\ web.url = WebUrl
    /\ web.response = Ok("", ProsePage)
    /\ web.examples # <<>>

\* C11 as stated: when the document ends inside an open code block, the block
\* is closed at the end of the document and is a record of the written file
\* exactly when it passes the filter of a block closed by a line.
C11_OpenBlockClosedAtEnd ==
    (pc = "pdf_done" /\ pdf.in_code_block)
        => (accepts_block(pdf.code_buffer)
                <=> \E r \in Range(pdf_file.records) :
                        r.code = JoinLines(pdf.code_buffer))

\* C12: clean_puppet_code is idempotent: called on a text it returned, it
\* returns that text.
C12_CleanIdempotent ==
    (pc = "clean" /\ Len(clean.outputs) >= 2)
        => clean.outputs[2] = clean.outputs[1]

\* clean_puppet_code changed a text with a run of blank lines and an indented
\* line, and was called again on what it returned.
C12_Witness ==
    /\ pc = "clean"
    /\ Len(clean.outputs) = 2
    /\ clean.code = "a\n\n\n a"
    /\ clean.outputs[1] = "a\n\na"

\* A line that is empty or holds whitespace only.
IsBlankLine(line) == Strip(line) = ""

\* C13 as stated: the text clean_puppet_code returns holds no two blank lines
\* in a row. Only lines ended by a newline are counted, so the empty piece
\* after a final newline is not taken for a blank line.
C13_NoBlankLineRuns ==
    (pc = "clean" /\ clean.outputs # <<>>)
        => LET lines == SplitLines(clean.outputs[1])
           IN  \A i \in 1..(Len(lines) - 2) :
                   ~(IsBlankLine(lines[i]) /\ IsBlankLine(lines[i + 1]))

\* The non-blank lines of a text, in order.
NonBlankLines(text) == SelectSeq(SplitLines(text), LAMBDA line : ~IsBlankLine(line))

\* A line re-emitted as 2 * floor(n / 2) spaces and its content, the line
\* without its leading whitespace; n is the number of leading characters of
\* the line that are in Indent.
Reemitted(line, Indent) ==
    LET n == Span(line, 1, Indent) - 1
        content == Sub(line, Span(line, 1, Whitespace), Len(line))
    IN  Repeat(" ", 2 * (n \div 2)) \o content

\* The non-blank lines of the returned text are the non-blank lines of the
\* text, as many and in the same order, each re-emitted.
ReemitsLines(Indent) ==
    (pc = "clean" /\ clean.outputs # <<>>)
        => LET lines == NonBlankLines(clean.code)
               cleaned == NonBlankLines(clean.outputs[1])
           IN  /\ Len(cleaned) = Len(lines)
               /\ \A i \in 1..Len(lines) : cleaned[i] = Reemitted(lines[i], Indent)

Min(a, b) == IF a < b THEN a ELSE b

\* C15: the held-out file holds min(50, floor(N / 10)) records, N the number
\* of records of the final corpus, and they are the first records of the
\* final corpus in its order.
C15_HeldOutSubset ==
    pc = "done"
        => /\ final_corpus.state = "list" /\ test_corpus.state = "list"
           /\ LET N == Len(final_corpus.records)
                  size == Min(50, N \div 10)
              IN  /\ Len(test_corpus.records) = size
                  /\ \A i \in 1..size : test_corpus.records[i] = final_corpus.records[i]

\* A run wrote a final corpus of 510 records, not in the order of the
\* directory, and a held-out file of 50 records.
C15_Witness ==
    /\ pc = "done"
    /\ Len(final_corpus.records) = 510
    /\ Len(test_corpus.records) = 50
    /\ unique_examples[1].source # raw_files[1].path

\* The object the final corpus holds for a record: its only field is text.
Wrapped(record) == [text |-> "# " \o record.instruction \o "\n" \o record.output]

\* C16: the final corpus is a permutation of the records that survive the
\* deduplication, each wrapped: as many objects as survivors, no object
\* twice, and the objects are the wrapped survivors. The survivors have
\* different codes, so no two of them are wrapped into the same object.
C16_FinalIsPermutation ==
    pc = "done"
        => LET survivors == dedup_loop(training_examples, 1, {}, <<>>)
               written == final_corpus.records
           IN  /\ final_corpus.state = "list"
               /\ Len(written) = Len(survivors)
               /\ Cardinality(Range(written)) = Len(written)
               /\ Range(written) = {Wrapped(record) : record \in Range(survivors)}

\* A run wrote three records of a directory of three manifests and a copy,
\* in an order that is neither that of the directory nor its reverse.
C16_Witness ==
    /\ pc = "done"
    /\ Len(raw_files) = 4
    /\ Len(final_corpus.records) = 3
    /\ final_corpus.records[1] = Wrapped(github_example(raw_files[2]))
    /\ final_corpus.records[2] = Wrapped(github_example(raw_files[1]))
    /\ final_corpus.records[3] = Wrapped(github_example(raw_files[3]))

\* C17: extract_code_blocks never raises and returns the empty list when its
\* request ends in a timeout, a network error or a status that is not 2xx, or
\* when its parsing fails; scrape_puppet_docs goes on to the next URL after a
\* URL that failed, takes no record from it, and saves the corpus.
C17_ExtractNeverRaises ==
    /\ \A url \in Range(urls) \cup ExtractUrls : \A response \in FailedResponses :
            ~extract_raises(response) /\ extract_examples(url, response) = <<>>
    /\ pc # "aborted"
    /\ \A k \in 1..Len(urls) :
            k < web.url_index
                => /\ urls[k] \in web.processed_urls
                   /\ respond_from(web.remote, urls[k]).kind # "ok"
                        => \A r \in Range(web.all_examples) : r.source # urls[k]
    /\ pc \in {"scrape_repos", "scrape_save", "web_saved", "web_merged", "done"}
            => web.processed_urls = Range(urls)
    /\ pc \in {"web_saved", "web_merged", "done"} => web_file.state = "list"

\* The first URL was answered 404, the second gave a record, and the corpus
\* was saved with that record.
C17_Witness ==
    /\ pc = "web_saved"
    /\ respond_from(web.remote, urls[1]) = Failed("http_error")
    /\ respond_from(web.remote, urls[2]).kind = "ok"
    /\ web_file.state = "list"
    /\ web_file.records[1].source = urls[2]

\* A request that failed: it raised, or its status is not 200.
FailedRequest(request) == request.response.raises # "" \/ request.response.status # 200

\* The run of the GitHub scraper is over.
GithubEnded == pc \in {"github_done", "aborted"}

\* The URL was requested in the run.
Requested(url) == \E j \in 1..Len(github.requests) : github.requests[j].url = url

\* C18 as stated: when the tree-listing request of a repository fails (status
\* that is not 200, timeout or network error), no file of that repository is
\* requested or written, and every later repository of the list has been
\* listed when the run is over.
C18_ListingFailureIsolated ==
    pc \in {"github_repo", "github_files", "github_done", "aborted"}
        => \A k \in 1..Len(repo_list) : \A i \in 1..Len(github.requests) :
            (github.requests[i].url = api_url(repo_list[k])
                    /\ FailedRequest(github.requests[i]))
                => /\ \A j \in 1..Len(github.requests) :
                        ~At(github.requests[j].url, 1, raw_url(repo_list[k], ""))
                   /\ \A f \in Range(github.files) :
                        ~At(f.path, 1, repo_dir(repo_list[k]) \o "/")
                   /\ GithubEnded
                        => \A later \in (k + 1)..Len(repo_list) :
                                Requested(api_url(repo_list[later]))

\* C19 as stated: no URL is requested twice; a file request that fails (status
\* that is not 200, timeout or network error) writes no local file for its
\* path, and when the run is over every .pp path of the repository has been
\* requested and every later repository has been listed.
C19_FileFailureSkipped ==
    pc \in {"github_repo", "github_files", "github_done", "aborted"}
        => /\ \A i, j \in 1..Len(github.requests) :
                github.requests[i].url = github.requests[j].url => i = j
           /\ \A k \in 1..Len(github.trees) : \A n \in 1..Len(github.trees[k]) :
                \A i \in 1..Len(github.requests) :
                    (github.requests[i].url = raw_url(repo_list[k], github.trees[k][n])
                            /\ FailedRequest(github.requests[i]))
                        => /\ \A f \in Range(github.files) :
                                f.path # local_path(repo_list[k], github.trees[k][n])
                           /\ GithubEnded
                                => /\ \A m \in 1..Len(github.trees[k]) :
                                        Requested(raw_url(repo_list[k], github.trees[k][m]))
                                   /\ \A later \in (k + 1)..Len(repo_list) :
                                        Requested(api_url(repo_list[later]))

\* The least number of a non-empty set of numbers.
Least(S) == CHOOSE n \in S : \A m \in S : n <= m

\* The rule of the manifest probes, for the answers that win: the paths of a
\* repository are requested in list order; the first path whose answer wins
\* is the last one requested and gives the single record of the repository;
\* when no answer wins every path is requested and the repository gives no
\* record; and every repository is probed.
ProbeRule(Wins(_)) ==
    /\ \A k \in 1..Len(web.repo_requests) :
        LET paths == common_paths(repos[k])
            asked == web.repo_requests[k]
            records == SelectSeq(web.all_examples,
                                 LAMBDA r : /\ r.element_type = "github_manifest"
                                            /\ r.source \in Range(paths))
            winners == {i \in 1..Len(paths) : Wins(respond_from(web.remote, paths[i]))}
        IN  /\ Len(asked) <= Len(paths)
            /\ asked = SubSeq(paths, 1, Len(asked))
            /\ winners # {}
                => /\ Len(asked) = Least(winners)
                   /\ Len(records) = 1
                   /\ records[1].source = paths[Least(winners)]
                   /\ records[1].code
                        = Strip(respond_from(web.remote, paths[Least(winners)]).text)
            /\ winners = {} => asked = paths /\ records = <<>>
    /\ pc \in {"scrape_save", "web_saved", "web_merged", "done"}
            => Len(web.repo_requests) = Len(repos)

\* C20 as stated: the first path that responds successfully, with status 200,
\* gives the single record of the repository and ends its probing.
C20_FirstResponseWins ==
    pc \in {"scrape_urls", "scrape_repos", "scrape_save", "web_saved", "web_merged", "done"}
        => ProbeRule(LAMBDA response : response.kind = "ok")

\* C20 amended: the first path that responds with status 200 and a body of
\* more than 50 characters, once stripped, gives the single record of the
\* repository and ends its probing; a path that answers 200 with a shorter
\* body gives no record and the next path is requested.
C20_FirstManifestWins ==
    pc \in {"scrape_urls", "scrape_repos", "scrape_save", "web_saved", "web_merged", "done"}
        => ProbeRule(LAMBDA response :
                        response.kind = "ok" /\ Len(Strip(response.text)) > 50)

\* The first path of the first repository answered 200 with a short body and
\* the second with a manifest: both were requested, no third, and the record
\* of the repository is the manifest of the second path.
C20_Witness ==
    /\ pc = "web_saved"
    /\ web.remote = Up({<<common_paths(repos[1])[1], ShortManifest>>,
                        <<common_paths(repos[1])[2], ManifestBody>>})
    /\ web.repo_requests[1] = SubSeq(common_paths(repos[1]), 1, 2)
    /\ \E r \in Range(web_file.records) :
            r.element_type = "github_manifest" /\ r.source = common_paths(repos[1])[2]
    /\ Len(web.repo_requests[2]) = 6

\* The URL of the call ends with '.pp' or holds the raw-content host, and the
\* request succeeded.
RawFetched ==
    /\ pc = "extracted"
    /\ EndsWith(web.url, ".pp") \/ Contains(web.url, "raw.githubusercontent.com")
    /\ web.response.kind = "ok"

\* The one record of a raw body: the stripped body with the score 10.
IsRawRecord(examples, content) ==
    /\ Len(examples) = 1
    /\ examples[1].code = content
    /\ examples[1].puppet_score = 10
    /\ examples[1].element_type = "raw_file"
    /\ examples[1].source = web.url

\* C21 as stated: for a raw URL a successful fetch with a non-empty body gives
\* exactly one record, the stripped body with the score 10.
C21_RawBodyYieldsOne ==
    (RawFetched /\ web.response.text # "")
        => IsRawRecord(web.examples, Strip(web.response.text))

\* C21 amended: a body of more than 20 characters once stripped gives exactly
\* one record, the stripped body with the score 10, whatever the scorer gives
\* for it and whatever markup it holds; a shorter body gives no record.
C21_RawBodyOverTwenty ==
    RawFetched
        => IF Len(Strip(web.response.text)) > 20
           THEN IsRawRecord(web.examples, Strip(web.response.text))
           ELSE web.examples = <<>>

\* A raw URL answered with a body of markup that holds two <pre> elements:
\* the call gave one record, the whole body, with a score the scorer does not
\* give for it.
C21_Witness ==
    /\ RawFetched
    /\ web.response = Ok(MarkupBody, MarkupPage)
    /\ Len(web.examples) = 1
    /\ web.examples[1].code = MarkupBody
    /\ puppet_score(MarkupBody) # 10

\* C22: the plausibility score of a text is the number of the 18 patterns
\* that match it, whichever way round the patterns are visited, so it lies
\* between 0 and 18; and the score of a text with one more line appended is
\* never below the score of the text.
C22_ScoreIsMatchCount ==
    pc = "score" =>
        /\ Len(puppet_patterns) = 18
        /\ \A k \in 1..Len(scored.scores) :
              /\ scored.scores[k] \in 0..18
              /\ scored.scores[k] = sum_matches(scored.codes[k], listed_order)
              /\ scored.scores[k] = sum_matches(scored.codes[k], reverse_order)
              /\ k > 1 => scored.scores[k] >= scored.scores[k - 1]

\* A line was appended that raised a positive score, and one that did not.
C22_Witness ==
    /\ pc = "score"
    /\ Len(scored.scores) = 3
    /\ 0 < scored.scores[1]
    /\ scored.scores[1] < scored.scores[2]
    /\ scored.scores[2] = scored.scores[3]

\* The records a call appended to training_examples.
Appended == SubSeq(training_examples', Len(training_examples) + 1, Len(training_examples'))

\* The record has a puppet_score field of at least 3.
ScoresAtLeastThree(example) == "puppet_score" \in DOMAIN example /\ example.puppet_score >= 3

\* C23: every record process_web_examples appends is made from a record of
\* the web corpus whose puppet_score is at least 3, so a corpus of records
\* that score below 3 or have no score adds nothing; process_pdf_examples and
\* process_github_files apply no score test: a PDF record of 30 characters or
\* more with its three fields, and a readable raw file, is appended although
\* it has no score.
C23_WebScoreFilter ==
    [][/\ calls' = Append(calls, "web") =>
            /\ \A k \in 1..Len(Appended) :
                  \E i \in 1..Len(web_file.records) :
                      /\ ScoresAtLeastThree(web_file.records[i])
                      /\ Appended[k].output = clean_puppet_code(web_file.records[i].code)
                      /\ Appended[k].source = web_file.records[i].source
            /\ (\A i \in 1..Len(web_file.records) :
                    ~ScoresAtLeastThree(web_file.records[i])) => Appended = <<>>
       /\ calls' = Append(calls, "pdf") =>
            \A i \in 1..Len(pdf_file.records) :
                (/\ \A j \in 1..i : DOMAIN pdf_file.records[j] = {"code", "description", "source"}
                 /\ Len(pdf_file.records[i].code) >= 30)
                => \E k \in 1..Len(Appended) :
                      Appended[k].output = clean_puppet_code(pdf_file.records[i].code)
       /\ calls' = Append(calls, "github") =>
            \A i \in 1..Len(raw_files) :
                (\A j \in 1..i : raw_files[j].decodable)
                => \E k \in 1..Len(Appended) : Appended[k].source = raw_files[i].path
      ]_vars

\* process_web_examples has run on a corpus of a record without a score and
\* a record of the same code that scores 3, and kept the second only.
C23_Witness ==
    /\ calls = <<"web">>
    /\ web_file = JsonList(<<[code |-> CodeX, description |-> "Manage the foo class",
                              source |-> WebUrl],
                             GoodWeb(CodeX)>>)
    /\ Len(training_examples) = 1

\* The description the first rule that applies gives: a class declaration, a
\* define declaration, a node declaration, an include statement, or none.
first_applicable(description, code) ==
    IF description \in {"Classes", "Puppet", ""} \/ Len(description) < 10
    THEN IF SearchKeyword(code, "class").found
         THEN "Puppet class " \o SearchKeyword(code, "class").group
         ELSE IF SearchKeyword(code, "define").found
         THEN "Puppet defined type " \o SearchKeyword(code, "define").group
         ELSE IF Contains(code, "node ") THEN "Puppet node definition"
         ELSE IF Contains(code, "include ") THEN "Including Puppet classes"
         ELSE "Puppet configuration code"
    ELSE description

\* C24: the instruction process_web_examples gives a record is its
\* description when that has 10 characters or more and is no placeholder, and
\* otherwise the replacement of the first rule that applies to its code:
\* class, define, node, include, or the generic label.
C24_FirstRuleThatApplies ==
    (/\ calls = <<"web">>
     /\ Len(web_file.records) = 1
     /\ Len(training_examples) = 1)
    => training_examples[1].instruction
         = first_applicable(web_file.records[1].description, web_file.records[1].code)

\* A call of process_web_examples or process_pdf_examples on a file that does
\* not exist.
CallOnAbsent ==
    \/ calls' = Append(calls, "web") /\ web_file = Absent
    \/ calls' = Append(calls, "pdf") /\ pdf_file = Absent

\* A call on an absent file is among the calls made.
CalledOnAbsent ==
    \/ "web" \in Range(calls) /\ web_file = Absent
    \/ "pdf" \in Range(calls) /\ pdf_file = Absent

\* C25: a call of process_web_examples or process_pdf_examples on a file
\* that does not exist returns to the caller and leaves training_examples as
\* it was; and in a run with such a call every training example is in the
\* final corpus, itself or the earlier example it duplicates.
C25_AbsentFileKeepsExamples ==
    /\ [][CallOnAbsent => (training_examples' = training_examples /\ pc' = pc)]_vars
    /\ [](pc = "done" /\ CalledOnAbsent =>
            \A i \in 1..Len(training_examples) :
                \E j \in 1..i :
                    /\ normalized(training_examples[j].output)
                         = normalized(training_examples[i].output)
                    /\ format_example(training_examples[j]) \in Range(final_corpus.records))

\* A raw file was loaded, process_web_examples was called without a web
\* corpus, and the final corpus holds the record of the raw file.
C25_Witness ==
    /\ pc = "done"
    /\ calls = <<"github", "web">>
    /\ web_file = Absent
    /\ Len(training_examples) = 1
    /\ final_corpus.records = <<format_example(training_examples[1])>>

\* C26: the links find_related_links returns are absolute URLs on the host
\* of the base URL, all different, each the target of an anchor whose URL or
\* text holds a topic keyword, and at most max_links of them, for every
\* max_links from 0 up.
C26_RelatedLinksBounded ==
    pc = "returned" =>
        /\ \A k \in 1..Len(related.returned) :
              /\ scheme_end(related.returned[k]) > 0
              /\ netloc(related.returned[k]) = netloc(related.base_url)
              /\ \E i \in 1..Len(related.all_links) :
                    /\ related.all_links[i].href # ""
                    /\ urljoin(related.base_url, related.all_links[i].href)
                         = related.returned[k]
                    /\ suggests_puppet(related.returned[k], related.all_links[i].text)
              /\ \A j \in 1..Len(related.returned) :
                    related.returned[j] = related.returned[k] => j = k
        /\ Len(related.returned) <= related.max_links

\* extract_from_pdf appends a record in this step.
EmitsPdfExample == Len(pdf'.examples) = Len(pdf.examples) + 1

\* The record appended in this step has a code of more than two lines and
\* more than 50 characters that holds '=>', 'class' or 'define', and the
\* description and source of the section in force and of the page read.
EmittedIsFiltered ==
    LET example == pdf'.examples[Len(pdf'.examples)]
    IN  /\ Len(SplitLines(example.code)) > 2
        /\ Len(example.code) > 50
        /\ \/ Contains(example.code, "=>")
           \/ Contains(example.code, "class")
           \/ Contains(example.code, "define")
        /\ example.description = "From " \o pdf'.current_section \o " on page "
                                  \o IntToStr(pdf.page_num + 1)
        /\ example.source = "PDF page " \o IntToStr(pdf.page_num + 1)

ReadsPdfLine == pc = "pdf_scan" /\ pdf.page_num < Len(pdf.pages) /\ pdf' # pdf

\* The line read in this step.
LineRead == SplitLines(pdf.pages[pdf.page_num + 1])[pdf.line_num]

\* The line is indented, holds '=>', ends with a comma or is a closing brace.
IsContinuation(line) ==
    \/ At(line, 1, " ") \/ At(line, 1, "\t")
    \/ Contains(line, "=>")
    \/ EndsWith(Strip(line), ",")
    \/ Strip(line) = "}"

\* C28: while a block is open, a line that is indented, holds '=>', ends
\* with a comma or is a closing brace is appended to the buffer of the block
\* and the block stays open, an indented resource opener included; and the
\* block is closed by no such line.
C28_ContinuationAppended ==
    [][(ReadsPdfLine /\ pdf.in_code_block) =>
        IF IsContinuation(LineRead)
        THEN /\ pdf'.in_code_block
             /\ pdf'.code_buffer = Append(pdf.code_buffer, LineRead)
        ELSE TRUE]_vars

\* C29: when a line that opens a block is read while a block is open, the
\* open block is put to the filter first, so that a block that passes the
\* filter is recorded before the new block starts.
C29_OpenBlockRecordedAtOpener ==
    [][(/\ ReadsPdfLine
        /\ pdf.in_code_block
        /\ opens_code_block(LineRead)
        /\ accepts_block(pdf.code_buffer))
       => /\ Len(pdf'.examples) = Len(pdf.examples) + 1
          /\ pdf'.examples[Len(pdf'.examples)].code = JoinLines(pdf.code_buffer)]_vars

\* C30: no local file is written twice: the paths of a repository that end
\* in .pp are flattened to local names that differ when the paths differ.
C30_LocalNamesDistinct ==
    pc \in {"github_repo", "github_files", "github_done", "aborted"}
        => /\ \A i, j \in 1..Len(github.files) :
                github.files[i].path = github.files[j].path => i = j
           /\ \A k \in 1..Len(github.trees) : \A m, n \in 1..Len(github.trees[k]) :
                local_path(repo_list[k], github.trees[k][m])
                    = local_path(repo_list[k], github.trees[k][n])
                => github.trees[k][m] = github.trees[k][n]

====
